---- MODULE Spec2Model ----
(***************************************************************************)
(* Model of the two-character Thompson NFA compiler and matcher            *)
(* (thompson_nfa_compiler: nfa.rs, compiler.rs, matcher.rs).               *)
(*                                                                         *)
(* Conventions.                                                            *)
(*  - A char is its code point (a Nat). A string / Vec<char> is a sequence *)
(*    of code points.                                                      *)
(*  - Option<T> is a sequence of length 0 (None) or 1 (Some(x)).           *)
(*  - StateId is 0-based as in the code; states is a TLA+ sequence, so the *)
(*    state with id i is states[i + 1].                                    *)
(*  - A Result<Fragment, CompileError> is a record whose err field is      *)
(*    "Ok" or the name of the CompileError variant.                        *)
(***************************************************************************)
EXTENDS Integers, Sequences, FiniteSets, TLC

VARIABLES pc, hir, nfa, err, loops, rerun, input, matched, found, all, lowered

vars == <<pc, hir, nfa, err, loops, rerun, input, matched, found, all, lowered>>

None == <<>>
Some(x) == <<x>>

\* usize::MAX, the sentinel target that connect() rewrites. The model keeps
\* it as the largest integer of the model's integer width.
UNPATCHED == 2147483647

\* Bounds of the model.
MaxLen == 3
MaxHashOrders == 2

\* Program constants of compiler.rs.
NegatedThreshold == 50000
EnumRangeLimit == 1000
RejectedLimit == 200
LookaheadRangeLimit == 10

\* char::from_u32 is Some exactly for the Unicode scalar values.
IsChar(code) ==
    code >= 0 /\ code <= 1114111 /\ ~(code >= 55296 /\ code <= 57343)

(***************************************************************************)
(* nfa.rs                                                                  *)
(***************************************************************************)

\* TwoCharTransition and its constructors.
Transition(current, lookahead, target) ==
    [current |-> current, lookahead |-> lookahead, target |-> target]

TChar(ch, target) == Transition(Some(ch), None, target)

TCharWithLookahead(current, lookahead, target) ==
    Transition(Some(current), Some(lookahead), target)

TDot(target) == Transition(None, None, target)

\* enum State
StTransitions(ts) == [kind |-> "Transitions", transitions |-> ts]
StEpsilon(next) == [kind |-> "Epsilon", next |-> next]
StSplit(targets) == [kind |-> "Split", targets |-> targets]
StMatch == [kind |-> "Match"]
StRejected == [kind |-> "Rejected"]

Fragment(start, end) == [start |-> start, end |-> end]

\* NFA::new
NewNFA == [states |-> <<>>, start |-> 0, accepting |-> {}, next_id |-> 0]

StateAt(n, id) == n.states[id + 1]

\* NFA::add_state: the new NFA; the id it returns is n.next_id (AddedId).
AddedId(n) == n.next_id

\* Mutant of add_state: next_id is not incremented.
add_state_KeepsNextId(n, state) == [n EXCEPT !.states = Append(@, state)]

add_state(n, state) ==
    [n EXCEPT !.states = Append(@, state), !.next_id = @ + 1]

epsilon(n, next) == add_state(n, StEpsilon(next))

split(n, targets) == add_state(n, StSplit(targets))

transition_state(n, transition) == add_state(n, StTransitions(<<transition>>))

transitions_state(n, transitions) == add_state(n, StTransitions(transitions))

\* Mutant of match_state: the new Match state is not inserted into
\* accepting.
match_state_NoInsert(n) == add_state(n, StMatch)

\* NFA::match_state
match_state(n) ==
    [add_state(n, StMatch) EXCEPT !.accepting = @ \cup {AddedId(n)}]

rejected_state(n) == add_state(n, StRejected)

\* Mutant of PatchTransitions: connect rewrites the target of every
\* transition, patched or not.
PatchTransitions_All(ts, to) == [i \in 1..Len(ts) |-> [ts[i] EXCEPT !.target = to]]

\* Mutant of PatchTransitions: connect leaves the transitions of a
\* Transitions state as they are.
PatchTransitions_LeavesSentinel(ts, to) == ts

\* Mutant of PatchTransitions: the test of the target is inverted, so
\* connect rewrites the targets that are already patched.
PatchTransitions_Inverted(ts, to) ==
    [i \in 1..Len(ts) |->
        IF ts[i].target # UNPATCHED THEN [ts[i] EXCEPT !.target = to] ELSE ts[i]]

\* The arm of connect for a Transitions state: only targets equal to
\* usize::MAX are rewritten.
PatchTransitions(ts, to) ==
    [i \in 1..Len(ts) |->
        IF ts[i].target = UNPATCHED THEN [ts[i] EXCEPT !.target = to] ELSE ts[i]]

\* Mutant of PatchEpsilon: connect leaves the next of an Epsilon state as it
\* is.
PatchEpsilon_KeepsNext(st, to) == st

\* The arm of connect for an Epsilon state.
PatchEpsilon(st, to) == [st EXCEPT !.next = to]

\* The arm of connect for a Split state.
PatchSplit(st, to) == [st EXCEPT !.targets = Append(@, to)]

\* NFA::connect
connect(n, from, to) ==
    IF from >= Len(n.states) THEN n
    ELSE LET st == StateAt(n, from) IN
         CASE st.kind = "Epsilon" ->
                [n EXCEPT !.states[from + 1] = PatchEpsilon(st, to)]
           [] st.kind = "Split" ->
                [n EXCEPT !.states[from + 1] = PatchSplit(st, to)]
           [] st.kind = "Transitions" ->
                [n EXCEPT !.states[from + 1] =
                    StTransitions(PatchTransitions(st.transitions, to))]
           [] OTHER -> n

\* Some enumeration of a finite set of integers as a sequence (used where the
\* code collects a HashSet into a Vec and the result does not depend on the
\* order).
SetToSeq(S) ==
    [i \in 1..Cardinality(S) |->
        CHOOSE x \in S : Cardinality({y \in S : y < x}) = i - 1]

\* The inner `for &target in targets` of epsilon_closure: returns the closure
\* and the stack after visiting targets[i..].
\* Mutant of ClosurePush: the targets are inserted into the closure but not
\* pushed on the stack, so their own edges are not followed.
ClosurePush_NotPushed(targets, i, closure, stack) ==
    [closure |-> closure \cup {targets[k] : k \in i..Len(targets)},
     stack |-> stack]

RECURSIVE ClosurePush(_, _, _, _)
ClosurePush(targets, i, closure, stack) ==
    IF i > Len(targets) THEN [closure |-> closure, stack |-> stack]
    ELSE IF targets[i] \in closure
         THEN ClosurePush(targets, i + 1, closure, stack)
         ELSE ClosurePush(targets, i + 1, closure \cup {targets[i]},
                          Append(stack, targets[i]))

\* The `while let Some(state_id) = stack.pop()` loop of epsilon_closure.
RECURSIVE ClosureLoop(_, _, _)
ClosureLoop(n, closure, stack) ==
    IF stack = <<>> THEN closure
    ELSE LET state_id == stack[Len(stack)]
             rest == SubSeq(stack, 1, Len(stack) - 1)
         IN IF state_id >= Len(n.states) THEN ClosureLoop(n, closure, rest)
            ELSE LET st == StateAt(n, state_id) IN
                 CASE st.kind = "Epsilon" ->
                        LET r == ClosurePush(<<st.next>>, 1, closure, rest)
                        IN ClosureLoop(n, r.closure, r.stack)
                   [] st.kind = "Split" ->
                        LET r == ClosurePush(st.targets, 1, closure, rest)
                        IN ClosureLoop(n, r.closure, r.stack)
                   [] OTHER -> ClosureLoop(n, closure, rest)

\* NFA::epsilon_closure
epsilon_closure(n, states) == ClosureLoop(n, states, SetToSeq(states))

\* NFA::is_accepting
is_accepting(n, states) == \E s \in states : s \in n.accepting

\* NFA::get_two_char_transitions, as the set of the transitions of the
\* Transitions states of `states` (step_states only collects their targets
\* into a set).
get_two_char_transitions(n, states) ==
    UNION { IF s < Len(n.states) /\ StateAt(n, s).kind = "Transitions"
            THEN { StateAt(n, s).transitions[i] :
                     i \in 1..Len(StateAt(n, s).transitions) }
            ELSE {} : s \in states }

(***************************************************************************)
(* matcher.rs                                                              *)
(***************************************************************************)

\* The predicate test on a slot holding Option<char>: None is "any
\* character", Some(c) is exactly c.
matches(slot, ch) == slot = None \/ slot[1] = ch

\* Mutant of transition_matches: at the end of the input a lookahead is
\* taken as satisfied.
transition_matches_LookaheadAtEnd(transition, current_char, next_char) ==
    IF ~matches(transition.current, current_char) THEN FALSE
    ELSE IF transition.lookahead = None THEN TRUE
    ELSE IF next_char # None THEN matches(transition.lookahead, next_char[1])
    ELSE TRUE

\* Matcher::transition_matches
transition_matches(transition, current_char, next_char) ==
    IF ~matches(transition.current, current_char) THEN FALSE
    ELSE IF transition.lookahead = None THEN TRUE
    ELSE IF next_char # None THEN matches(transition.lookahead, next_char[1])
    ELSE FALSE

\* Matcher::step_states
step_states(n, current_states, current_char, next_char) ==
    { t.target : t \in { u \in get_two_char_transitions(n, current_states) :
                           transition_matches(u, current_char, next_char) } }

\* chars[position] with 0-based positions.
CharAt(chars, position) == chars[position + 1]

\* The `while position < chars.len() && !current_states.is_empty()` loop of
\* match_at together with the final check after it.
RECURSIVE MatchLoop(_, _, _, _)
MatchLoop(n, chars, position, current_states) ==
    IF position < Len(chars) /\ current_states # {}
    THEN LET current_char == CharAt(chars, position)
             next_char == IF position + 1 < Len(chars)
                          THEN Some(CharAt(chars, position + 1)) ELSE None
             next_states == step_states(n, current_states, current_char, next_char)
         IN IF next_states = {}
            THEN (IF is_accepting(n, current_states) THEN Some(position) ELSE None)
            ELSE LET cs == epsilon_closure(n, next_states)
                 IN IF is_accepting(n, cs) THEN Some(position + 1)
                    ELSE MatchLoop(n, chars, position + 1, cs)
    ELSE IF is_accepting(n, current_states) THEN Some(position) ELSE None

\* Mutant of match_at: the check of the start set before the loop is left
\* out.
match_at_NoStartCheck(n, chars, start) ==
    MatchLoop(n, chars, start, epsilon_closure(n, {n.start}))

\* Matcher::match_at
match_at(n, chars, start) ==
    LET current_states == epsilon_closure(n, {n.start})
    IN IF is_accepting(n, current_states) /\ start <= Len(chars)
       THEN Some(start)
       ELSE MatchLoop(n, chars, start, current_states)

MatchResult(start, end) == [matched |-> TRUE, start |-> start, end |-> end]

\* Mutant of FindFrom: only the first start position is tried.
FindFrom_OnlyStart(n, chars, start) ==
    IF start > Len(chars) \/ match_at(n, chars, start) = None THEN None
    ELSE Some(MatchResult(start, match_at(n, chars, start)[1]))

\* The `for start in 0..=chars.len()` loop of find.
RECURSIVE FindFrom(_, _, _)
FindFrom(n, chars, start) ==
    IF start > Len(chars) THEN None
    ELSE LET r == match_at(n, chars, start)
         IN IF r # None THEN Some(MatchResult(start, r[1]))
            ELSE FindFrom(n, chars, start + 1)

\* Matcher::find
find(n, chars) == FindFrom(n, chars, 0)

\* Mutant of is_match: any accepted prefix counts as a match of the input.
is_match_AnyPrefix(n, chars) == match_at(n, chars, 0) # None

\* Matcher::is_match
is_match(n, chars) == match_at(n, chars, 0) = Some(Len(chars))

\* Mutant of Max: when the second argument is the larger one, one more is
\* returned.
Max_OneMore(x, y) == IF x >= y THEN x ELSE y + 1

\* usize::max
Max(x, y) == IF x >= y THEN x ELSE y

\* Mutant of FindAllFrom: the loop also runs for start = chars.len().
RECURSIVE FindAllFrom_ThroughLen(_, _, _, _)
FindAllFrom_ThroughLen(n, chars, start, acc) ==
    IF start <= Len(chars)
    THEN IF match_at(n, chars, start) # None
         THEN FindAllFrom_ThroughLen(n, chars,
                  Max(match_at(n, chars, start)[1], start + 1),
                  Append(acc, MatchResult(start, match_at(n, chars, start)[1])))
         ELSE FindAllFrom_ThroughLen(n, chars, start + 1, acc)
    ELSE acc

\* The `while start < chars.len()` loop of find_all.
RECURSIVE FindAllFrom(_, _, _, _)
FindAllFrom(n, chars, start, acc) ==
    IF start < Len(chars)
    THEN LET r == match_at(n, chars, start)
         IN IF r # None
            THEN FindAllFrom(n, chars, Max(r[1], start + 1),
                             Append(acc, MatchResult(start, r[1])))
            ELSE FindAllFrom(n, chars, start + 1, acc)
    ELSE acc

\* Matcher::find_all
find_all(n, chars) == FindAllFrom(n, chars, 0, <<>>)

(***************************************************************************)
(* HIR (regex_syntax::hir), as consumed by compiler.rs                     *)
(***************************************************************************)

HEmpty == [kind |-> "Empty"]
\* Literal(bytes)
HLiteral(bytes) == [kind |-> "Literal", bytes |-> bytes]
\* Class(Unicode(ranges)) / Class(Bytes(ranges)); a range is <<start, end>>.
HClassUnicode(ranges) == [kind |-> "Class", unicode |-> TRUE, ranges |-> ranges]
HClassBytes(ranges) == [kind |-> "Class", unicode |-> FALSE, ranges |-> ranges]
HLook(look) == [kind |-> "Look", look |-> look]
\* Repetition{min, max: Option<u32>, kind, sub}
HRepetition(min, max, rkind, sub) ==
    [kind |-> "Repetition", min |-> min, max |-> max, rkind |-> rkind, sub |-> sub]
HCapture(sub) == [kind |-> "Capture", sub |-> sub]
HConcat(subs) == [kind |-> "Concat", subs |-> subs]
HAlternation(subs) == [kind |-> "Alternation", subs |-> subs]

(***************************************************************************)
(* compiler.rs                                                             *)
(*                                                                         *)
(* The compiler state c holds the NFA under construction (Compiler.nfa),   *)
(* the iteration orders its HashSets yield (order: one entry for each      *)
(* HashSet, in the order they are created; sets: the number of HashSets    *)
(* iterated so far), and a record of the possessive loop nodes built so    *)
(* far (loops: the locals main_state, pattern_chars and end_state of       *)
(* compile_possessive_plus).                                               *)
(***************************************************************************)

\* Compiler::new
NewCompiler(order) ==
    [nfa |-> NewNFA, order |-> order, sets |-> 0, loops |-> <<>>]

Ok(c, start, end) == [c |-> c, start |-> start, end |-> end, err |-> "Ok"]
Err(c, e) == [c |-> c, start |-> 0, end |-> 0, err |-> e]

WithNfa(c, n) == [c EXCEPT !.nfa = n]

\* Compiler::compile_empty
compile_empty(c) ==
    LET start == AddedId(c.nfa)
    IN Ok(WithNfa(c, epsilon(c.nfa, 0)), start, start)

\* A UTF-8 continuation byte.
IsCont(b) == b >= 128 /\ b <= 191

\* std::str::from_utf8(bytes) followed by chars(): the decoded code points,
\* or ok = FALSE when the bytes are not well-formed UTF-8.
RECURSIVE Utf8Decode(_, _, _)
Utf8Decode(bytes, i, chars) ==
    IF i > Len(bytes) THEN [ok |-> TRUE, chars |-> chars]
    ELSE LET b0 == bytes[i]
             left == Len(bytes) - i
         IN IF b0 < 128 THEN Utf8Decode(bytes, i + 1, Append(chars, b0))
            ELSE IF /\ b0 >= 194 /\ b0 <= 223 /\ left >= 1
                    /\ IsCont(bytes[i + 1])
            THEN Utf8Decode(bytes, i + 2,
                    Append(chars, (b0 - 192) * 64 + (bytes[i + 1] - 128)))
            ELSE IF /\ b0 >= 224 /\ b0 <= 239 /\ left >= 2
                    /\ IsCont(bytes[i + 1]) /\ IsCont(bytes[i + 2])
                    /\ (b0 = 224 => bytes[i + 1] >= 160)
                    /\ (b0 = 237 => bytes[i + 1] <= 159)
            THEN Utf8Decode(bytes, i + 3,
                    Append(chars, (b0 - 224) * 4096 + (bytes[i + 1] - 128) * 64
                                  + (bytes[i + 2] - 128)))
            ELSE IF /\ b0 >= 240 /\ b0 <= 244 /\ left >= 3
                    /\ IsCont(bytes[i + 1]) /\ IsCont(bytes[i + 2])
                    /\ IsCont(bytes[i + 3])
                    /\ (b0 = 240 => bytes[i + 1] >= 144)
                    /\ (b0 = 244 => bytes[i + 1] <= 143)
            THEN Utf8Decode(bytes, i + 4,
                    Append(chars, (b0 - 240) * 262144 + (bytes[i + 1] - 128) * 4096
                                  + (bytes[i + 2] - 128) * 64 + (bytes[i + 3] - 128)))
            ELSE [ok |-> FALSE, chars |-> <<>>]

\* The chars of a literal's bytes: the UTF-8 decoding, or, for bytes that
\* are not UTF-8, each byte as a char.
LiteralChars(bytes) ==
    LET d == Utf8Decode(bytes, 1, <<>>) IN IF d.ok THEN d.chars ELSE bytes

\* The `for &ch in chars.iter()` loop of compile_literal.
RECURSIVE LiteralStates(_, _, _, _)
LiteralStates(n, chars, i, fragments) ==
    IF i > Len(chars) THEN [nfa |-> n, fragments |-> fragments]
    ELSE LET state_id == AddedId(n)
             n2 == transition_state(n, TChar(chars[i], UNPATCHED))
         IN LiteralStates(n2, chars, i + 1,
                          Append(fragments, Fragment(state_id, state_id)))

\* Mutant of ConnectChain: the fragments are left unconnected.
ConnectChain_Unconnected(n, fragments, i) == n

\* `for i in 0..fragments.len() - 1 { connect(fragments[i].end,
\* fragments[i + 1].start) }` (compile_literal, compile_concat).
RECURSIVE ConnectChain(_, _, _)
ConnectChain(n, fragments, i) ==
    IF i >= Len(fragments) THEN n
    ELSE ConnectChain(connect(n, fragments[i].end, fragments[i + 1].start),
                      fragments, i + 1)

\* compile_literal from "Connect fragments in sequence" on: r holds the NFA
\* and the fragments after the loop over chars.
LiteralConnect(c, r) ==
    Ok(WithNfa(c, ConnectChain(r.nfa, r.fragments, 1)),
       r.fragments[1].start, r.fragments[Len(r.fragments)].end)

\* compile_literal once the chars of the literal are known.
LiteralOfChars(c, chars) ==
    IF chars = <<>> THEN compile_empty(c)
    ELSE LiteralConnect(c, LiteralStates(c.nfa, chars, 1, <<>>))

\* Compiler::compile_literal
compile_literal(c, bytes) == LiteralOfChars(c, LiteralChars(bytes))

\* The chars of the code range lo..=hi that char::from_u32 accepts, in order.
RangeChars(lo, hi) ==
    SelectSeq([i \in 1..(hi - lo + 1) |-> lo + i - 1], IsChar)

CharTransitions(chars) ==
    [i \in 1..Len(chars) |-> TChar(chars[i], UNPATCHED)]

\* Mutant of UnicodeRangeTransitions: only the two ends of a range get a
\* transition.
UnicodeRangeTransitions_EndsOnly(start_char, end_char) ==
    CharTransitions(SelectSeq(<<start_char, end_char>>, IsChar))

\* The body of the `for range in class.iter()` loop of compile_unicode_class
\* for one range.
UnicodeRangeTransitions(start_char, end_char) ==
    IF end_char - start_char <= EnumRangeLimit
    THEN CharTransitions(RangeChars(start_char, end_char))
    ELSE LET mid1 == start_char + (end_char - start_char) \div 3
             mid2 == start_char + (2 * (end_char - start_char)) \div 3
         IN CharTransitions(SelectSeq(<<start_char, end_char, mid1, mid2>>, IsChar))

RECURSIVE UnicodeRanges(_, _)
UnicodeRanges(ranges, i) ==
    IF i > Len(ranges) THEN <<>>
    ELSE UnicodeRangeTransitions(ranges[i][1], ranges[i][2])
         \o UnicodeRanges(ranges, i + 1)

RECURSIVE TotalChars(_, _)
TotalChars(ranges, i) ==
    IF i > Len(ranges) THEN 0
    ELSE (ranges[i][2] - ranges[i][1] + 1) + TotalChars(ranges, i + 1)

\* The iteration order of a HashSet<char> is not fixed by the program: std's
\* RandomState gives every HashSet its own keys, so each HashSet yields its
\* chars in any order, and two HashSets of one compile in unrelated orders.
\* The order is an input, digits: its i-th digit, modulo the number of chars
\* not yet yielded, is the index (from 0, in ascending order of the chars
\* not yet yielded) of the i-th char the iteration yields; a digit that is
\* missing is 0. Every permutation of S is HashSetIter(S, digits) for some
\* digits.
RemoveAt(seq, j) ==
    [i \in 1..(Len(seq) - 1) |-> IF i < j THEN seq[i] ELSE seq[i + 1]]

RECURSIVE PickEach(_, _, _)
PickEach(rest, digits, i) ==
    IF i > Len(digits) \/ rest = <<>> THEN rest
    ELSE <<rest[(digits[i] % Len(rest)) + 1]>>
         \o PickEach(RemoveAt(rest, (digits[i] % Len(rest)) + 1), digits, i + 1)

HashSetIter(S, digits) == PickEach(SetToSeq(S), digits, 1)

\* The digits of the k-th HashSet a Compiler iterates.
SetOrder(order, k) == IF k <= Len(order) THEN order[k] ELSE <<>>

\* `if rejected_chars.len() > 200 { break; }` after the codes ch_code..=c
\* of a gap have been handled.
GapStop(rejected_chars, ch_code, c) ==
    Cardinality(rejected_chars \cup {d \in ch_code..c : IsChar(d)}) > RejectedLimit

\* `for ch_code in lo..hi { insert; if rejected_chars.len() > 200 { break } }`:
\* a code is handled when it is the first of the gap or the loop did not
\* break after the code before it.
GapLoop(rejected_chars, ch_code, hi) ==
    rejected_chars \cup
    { c \in ch_code..(hi - 1) :
        /\ IsChar(c)
        /\ (c = ch_code \/ ~GapStop(rejected_chars, ch_code, c - 1)) }

\* The gap before the first range.
FirstGap(ranges) ==
    IF ranges # <<>> /\ ranges[1][1] > 0 THEN GapLoop({}, 0, ranges[1][1])
    ELSE {}

\* `for i in 0..ranges.len().saturating_sub(1)`: the gaps between ranges.
RECURSIVE BetweenGaps(_, _, _)
BetweenGaps(ranges, i, rejected_chars) ==
    IF i >= Len(ranges) THEN rejected_chars
    ELSE LET current_end == ranges[i][2]
             next_start == ranges[i + 1][1]
             s == IF next_start > current_end + 1
                  THEN GapLoop(rejected_chars, current_end + 1, next_start)
                  ELSE rejected_chars
         IN IF Cardinality(s) > RejectedLimit THEN s
            ELSE BetweenGaps(ranges, i + 1, s)

RejectedChars(ranges) == BetweenGaps(ranges, 1, FirstGap(ranges))

\* `for &ch in &rejected_chars`: one transition to the Rejected state per
\* rejected char, in the order the HashSet yields them.
Rejections(rejected_chars, rejected_state_id) ==
    [i \in 1..Len(rejected_chars) |->
        Transition(Some(rejected_chars[i]), None, rejected_state_id)]

\* Compiler::compile_negated_unicode_class: the compiler state after the
\* shared call to rejected_state, and the transitions.
compile_negated_unicode_class(c, ranges) ==
    [c |-> [c EXCEPT !.nfa = rejected_state(c.nfa), !.sets = @ + 1],
     transitions |->
        Append(Rejections(HashSetIter(RejectedChars(ranges),
                                      SetOrder(c.order, c.sets + 1)),
                          AddedId(c.nfa)),
               TDot(UNPATCHED))]

\* Compiler::compile_unicode_class
compile_unicode_class(c, ranges) ==
    IF TotalChars(ranges, 1) > NegatedThreshold
    THEN compile_negated_unicode_class(c, ranges)
    ELSE [c |-> c, transitions |-> UnicodeRanges(ranges, 1)]

\* Compiler::compile_bytes_class
RECURSIVE BytesRanges(_, _)
BytesRanges(ranges, i) ==
    IF i > Len(ranges) THEN <<>>
    ELSE CharTransitions([j \in 1..(ranges[i][2] - ranges[i][1] + 1) |->
                             ranges[i][1] + j - 1])
         \o BytesRanges(ranges, i + 1)

compile_bytes_class(c, ranges) == [c |-> c, transitions |-> BytesRanges(ranges, 1)]

\* compile_class after the match that yields the transitions (r): `let
\* state_id = self.nfa.transitions_state(transitions)` and the fragment.
ClassState(r) ==
    Ok(WithNfa(r.c, transitions_state(r.c.nfa, r.transitions)),
       AddedId(r.c.nfa), AddedId(r.c.nfa))

\* Compiler::compile_class
compile_class(c, class) ==
    ClassState(IF class.unicode THEN compile_unicode_class(c, class.ranges)
               ELSE compile_bytes_class(c, class.ranges))

\* Compiler::is_possessive
is_possessive(h) == h.kind = "Repetition" /\ h.rkind = "Possessive"

\* Compiler::is_lookahead
is_lookahead(h) ==
    h.kind = "Look" /\
    h.look \in {"Start", "End", "StartLF", "EndLF", "StartCRLF", "EndCRLF"}

\* Compiler::is_disjoint_lookahead
is_disjoint_lookahead(possessive, lookahead) == lookahead.kind = "Look"

\* The ranges of extract_lookahead_chars for a Unicode class: Err as soon as
\* a range spans more than 10 codes.
RECURSIVE LookaheadRanges(_, _, _)
LookaheadRanges(ranges, i, chars) ==
    IF i > Len(ranges) THEN [err |-> "Ok", chars |-> chars]
    ELSE IF ranges[i][2] - ranges[i][1] <= LookaheadRangeLimit
         THEN LookaheadRanges(ranges, i + 1,
                              chars \o RangeChars(ranges[i][1], ranges[i][2]))
         ELSE [err |-> "UnsupportedFeature", chars |-> <<>>]

RECURSIVE BytesChars(_, _)
BytesChars(ranges, i) ==
    IF i > Len(ranges) THEN <<>>
    ELSE [j \in 1..(ranges[i][2] - ranges[i][1] + 1) |-> ranges[i][1] + j - 1]
         \o BytesChars(ranges, i + 1)

\* Compiler::extract_lookahead_chars
extract_lookahead_chars(h) ==
    CASE h.kind = "Literal" -> [err |-> "Ok", chars |-> LiteralChars(h.bytes)]
      [] h.kind = "Class" ->
            IF h.unicode THEN LookaheadRanges(h.ranges, 1, <<>>)
            ELSE [err |-> "Ok", chars |-> BytesChars(h.ranges, 1)]
      [] OTHER -> [err |-> "UnsupportedFeature", chars |-> <<>>]

\* Compiler::extract_pattern_chars
extract_pattern_chars(h) == extract_lookahead_chars(h)

RECURSIVE compile_hir(_, _)

\* Compiler::compile_single
compile_single(c, h) == compile_hir(c, h)

\* Compiler::add_end_anchor_constraint_to_exits: it walks the fragment and
\* collects exit_states, and writes nothing to the NFA.
add_end_anchor_constraint_to_exits(n, start, end) == n

\* compile_possessive_with_disjoint_lookahead after `let possessive_fragment
\* = self.compile_hir(possessive)?`: the match on the kind of lookahead.
PossessiveThenLook(possessive_fragment, lookahead) ==
    IF possessive_fragment.err # "Ok" THEN possessive_fragment
    ELSE IF lookahead.kind = "Look"
         THEN IF lookahead.look \in {"End", "EndLF", "EndCRLF"}
              THEN Ok(WithNfa(possessive_fragment.c,
                              add_end_anchor_constraint_to_exits(
                                  possessive_fragment.c.nfa,
                                  possessive_fragment.start,
                                  possessive_fragment.end)),
                      possessive_fragment.start, possessive_fragment.end)
              ELSE Err(possessive_fragment.c, "UnsupportedFeature")
         ELSE Err(possessive_fragment.c, "Internal")

\* Compiler::compile_possessive_with_disjoint_lookahead
compile_possessive_with_disjoint_lookahead(c, possessive, lookahead) ==
    PossessiveThenLook(compile_hir(c, possessive), lookahead)

\* The rewrite of one Transitions state by augment_with_lookahead.
RECURSIVE AugmentTransitions(_, _, _)
AugmentTransitions(ts, i, lookahead_chars) ==
    IF i > Len(ts) THEN <<>>
    ELSE (IF lookahead_chars = <<>> THEN <<ts[i]>>
          ELSE [j \in 1..Len(lookahead_chars) |->
                   [ts[i] EXCEPT !.lookahead = Some(lookahead_chars[j])]])
         \o AugmentTransitions(ts, i + 1, lookahead_chars)

\* The `while let Some(state_id) = stack.pop()` loop of
\* augment_with_lookahead.
RECURSIVE AugmentLoop(_, _, _, _)
AugmentLoop(n, visited, stack, lookahead_chars) ==
    IF stack = <<>> THEN n
    ELSE LET state_id == stack[Len(stack)]
             rest == SubSeq(stack, 1, Len(stack) - 1)
         IN IF state_id \in visited \/ state_id >= Len(n.states)
            THEN AugmentLoop(n, visited \cup {state_id}, rest, lookahead_chars)
            ELSE LET st == StateAt(n, state_id)
                     v == visited \cup {state_id}
                 IN CASE st.kind = "Transitions" ->
                           AugmentLoop(
                             [n EXCEPT !.states[state_id + 1] =
                                StTransitions(AugmentTransitions(
                                    st.transitions, 1, lookahead_chars))],
                             v,
                             rest \o [i \in 1..Len(st.transitions) |->
                                         st.transitions[i].target],
                             lookahead_chars)
                      [] st.kind = "Epsilon" ->
                           AugmentLoop(n, v, Append(rest, st.next), lookahead_chars)
                      [] st.kind = "Split" ->
                           AugmentLoop(n, v, rest \o st.targets, lookahead_chars)
                      [] OTHER -> AugmentLoop(n, v, rest, lookahead_chars)

\* Compiler::augment_with_lookahead
augment_with_lookahead(n, start_state, lookahead_chars) ==
    AugmentLoop(n, {}, <<start_state>>, lookahead_chars)

\* compile_with_lookahead after `let base_fragment =
\* self.compile_single(first)?`.
AugmentBase(base_fragment, lookahead_chars) ==
    IF base_fragment.err # "Ok" THEN base_fragment
    ELSE Ok(WithNfa(base_fragment.c,
                    augment_with_lookahead(base_fragment.c.nfa,
                                           base_fragment.start, lookahead_chars)),
            base_fragment.start, base_fragment.end)

\* compile_with_lookahead after `self.extract_lookahead_chars(second)`, whose
\* result is la.
CompileThenAugment(c, first, la) ==
    IF la.err # "Ok" THEN Err(c, la.err)
    ELSE AugmentBase(compile_single(c, first), la.chars)

\* Compiler::compile_with_lookahead
compile_with_lookahead(c, first, second) ==
    CompileThenAugment(c, first, extract_lookahead_chars(second))

Consumed(r, k) ==
    [c |-> r.c, start |-> r.start, end |-> r.end, err |-> r.err, consumed |-> k]

\* Compiler::compile_pair
compile_pair(c, first, second) ==
    LET first_is_possessive == is_possessive(first)
        first_is_lookahead == is_lookahead(first)
        second_is_lookahead == is_lookahead(second)
    IN IF first_is_lookahead THEN Consumed(Err(c, "UnsupportedFeature"), 0)
       ELSE IF second_is_lookahead
       THEN IF first_is_possessive
            THEN IF is_disjoint_lookahead(first, second)
                 THEN Consumed(compile_possessive_with_disjoint_lookahead(
                                   c, first, second), 2)
                 ELSE Consumed(Err(c, "UnsupportedFeature"), 0)
            ELSE Consumed(compile_with_lookahead(c, first, second), 2)
       ELSE Consumed(compile_single(c, first), 1)

\* The `while i < concat.len()` loop of compile_concat (i is 1-based here).
RECURSIVE ConcatLoop(_, _, _, _)

\* One turn of that loop once its fragment is compiled (r, with the number
\* of elements it consumed): `?`, then `fragments.push(fragment); i +=
\* consumed`.
ConcatPush(r, concat, i, fragments) ==
    IF r.err # "Ok" THEN [c |-> r.c, fragments |-> fragments, err |-> r.err]
    ELSE ConcatLoop(r.c, concat, i + r.consumed,
                    Append(fragments, Fragment(r.start, r.end)))

ConcatLoop(c, concat, i, fragments) ==
    IF i > Len(concat) THEN [c |-> c, fragments |-> fragments, err |-> "Ok"]
    ELSE IF i + 1 <= Len(concat)
    THEN ConcatPush(compile_pair(c, concat[i], concat[i + 1]),
                    concat, i, fragments)
    ELSE ConcatPush(Consumed(compile_single(c, concat[i]), 1),
                    concat, i, fragments)

\* compile_concat from "Connect all fragments in sequence" on: r holds the
\* compiler and the fragments after the loop.
ConcatConnect(r) ==
    IF r.err # "Ok" THEN Err(r.c, r.err)
    ELSE Ok(WithNfa(r.c, ConnectChain(r.c.nfa, r.fragments, 1)),
            r.fragments[1].start, r.fragments[Len(r.fragments)].end)

\* Compiler::compile_concat
compile_concat(c, concat) ==
    IF concat = <<>> THEN compile_empty(c)
    ELSE IF Len(concat) = 1 THEN compile_hir(c, concat[1])
    ELSE ConcatConnect(ConcatLoop(c, concat, 1, <<>>))

\* The `for hir in alternation` loop of compile_alternation.
RECURSIVE CompileEach(_, _, _, _)

\* `fragments.push(self.compile_hir(hir)?)` once compile_hir has returned r.
EachPush(r, hirs, i, fragments) ==
    IF r.err # "Ok" THEN [c |-> r.c, fragments |-> fragments, err |-> r.err]
    ELSE CompileEach(r.c, hirs, i + 1,
                     Append(fragments, Fragment(r.start, r.end)))

CompileEach(c, hirs, i, fragments) ==
    IF i > Len(hirs) THEN [c |-> c, fragments |-> fragments, err |-> "Ok"]
    ELSE EachPush(compile_hir(c, hirs[i]), hirs, i, fragments)

\* Mutant of AlternationFold: the Split offers the later alternatives first.
RECURSIVE AlternationFold_LaterFirst(_, _, _, _)
AlternationFold_LaterFirst(n, fragments, k, result) ==
    IF k = 0 THEN [nfa |-> n, result |-> result]
    ELSE LET fragment == fragments[k]
             end_state == AddedId(n)
             n1 == epsilon(n, 0)
             split_state == AddedId(n1)
             n2 == split(n1, <<result.start, fragment.start>>)
             n3 == connect(n2, fragment.end, end_state)
             n4 == connect(n3, result.end, end_state)
         IN AlternationFold_LaterFirst(n4, fragments, k - 1,
                                       Fragment(split_state, end_state))

\* The `while let Some(fragment) = fragments.pop()` loop of
\* compile_alternation: fragments[1..k] are still on the stack.
RECURSIVE AlternationFold(_, _, _, _)
AlternationFold(n, fragments, k, result) ==
    IF k = 0 THEN [nfa |-> n, result |-> result]
    ELSE LET fragment == fragments[k]
             end_state == AddedId(n)
             n1 == epsilon(n, 0)
             split_state == AddedId(n1)
             n2 == split(n1, <<fragment.start, result.start>>)
             n3 == connect(n2, fragment.end, end_state)
             n4 == connect(n3, result.end, end_state)
         IN AlternationFold(n4, fragments, k - 1, Fragment(split_state, end_state))

\* `Ok(result)` of compile_alternation: f holds the NFA and the result
\* fragment after the fold.
AlternationResult(c, f) == Ok(WithNfa(c, f.nfa), f.result.start, f.result.end)

\* compile_alternation after the loop that compiles the alternatives (r):
\* the only fragment, or `let mut result = fragments.pop().unwrap()` and the
\* fold over the rest.
AlternationOf(r) ==
    IF r.err # "Ok" THEN Err(r.c, r.err)
    ELSE IF Len(r.fragments) = 1
    THEN Ok(r.c, r.fragments[1].start, r.fragments[1].end)
    ELSE AlternationResult(r.c,
            AlternationFold(r.c.nfa, r.fragments, Len(r.fragments) - 1,
                            r.fragments[Len(r.fragments)]))

\* Compiler::compile_alternation
compile_alternation(c, alternation) ==
    IF alternation = <<>> THEN compile_empty(c)
    ELSE AlternationOf(CompileEach(c, alternation, 1, <<>>))

\* Mutant of SplitTargets: the sub-fragment is always the first target.
SplitTargets_GreedyOnly(reluctant, expr_start, end_state) ==
    <<expr_start, end_state>>

\* The ordered targets of the Split of a non-possessive ?, * or +.
SplitTargets(reluctant, expr_start, end_state) ==
    IF reluctant THEN <<end_state, expr_start>> ELSE <<expr_start, end_state>>

\* compile_question after `let expr_fragment = self.compile_hir(expr)?`.
QuestionOf(expr_fragment, reluctant) ==
    IF expr_fragment.err # "Ok" THEN expr_fragment
    ELSE LET end_state == AddedId(expr_fragment.c.nfa)
             n1 == epsilon(expr_fragment.c.nfa, 0)
             split_state == AddedId(n1)
             n2 == split(n1, SplitTargets(reluctant, expr_fragment.start, end_state))
             n3 == connect(n2, expr_fragment.end, end_state)
         IN Ok(WithNfa(expr_fragment.c, n3), split_state, end_state)

\* Compiler::compile_question
compile_question(c, expr, possessive, reluctant) ==
    QuestionOf(compile_hir(c, expr), reluctant)

\* The transitions of the possessive loop node before the loop transitions
\* are pointed back at it.
RECURSIVE PossessiveTransitions(_, _)
PossessiveTransitions(pattern_chars, i) ==
    IF i > Len(pattern_chars) THEN <<>>
    ELSE <<TCharWithLookahead(pattern_chars[i], pattern_chars[i], UNPATCHED),
           TChar(pattern_chars[i], UNPATCHED)>>
         \o PossessiveTransitions(pattern_chars, i + 1)

\* Mutant of PointLoopsBack: the loop transitions are left unpatched, so the
\* later connect sends them to the exit.
PointLoopsBack_Skipped(ts, main_state) == ts

\* "Update the loop transitions to point back to main_state".
PointLoopsBack(ts, main_state) ==
    [i \in 1..Len(ts) |->
        IF ts[i].lookahead # None /\ ts[i].target = UNPATCHED
        THEN [ts[i] EXCEPT !.target = main_state] ELSE ts[i]]

\* compile_possessive_plus from "Create end state that exit transitions will
\* point to" on: n2 is the NFA whose main_state has its loop transitions
\* pointed back.
PossessiveExit(c, pattern_chars, main_state, n2) ==
    Ok([c EXCEPT !.nfa = connect(epsilon(n2, UNPATCHED), main_state, AddedId(n2)),
                 !.loops = Append(@, [P |-> main_state, E |-> AddedId(n2),
                                      C |-> {pattern_chars[i] :
                                               i \in 1..Len(pattern_chars)}])],
       main_state, AddedId(n2))

\* compile_possessive_plus after `self.extract_pattern_chars(expr)`, whose
\* result is pc_: the main state and its loop transitions.
PossessiveMain(c, pc_) ==
    IF pc_.err # "Ok" THEN Err(c, pc_.err)
    ELSE PossessiveExit(c, pc_.chars, AddedId(c.nfa),
            [transitions_state(c.nfa, PossessiveTransitions(pc_.chars, 1))
                EXCEPT !.states[AddedId(c.nfa) + 1] =
                    StTransitions(PointLoopsBack(@.transitions, AddedId(c.nfa)))])

\* Compiler::compile_possessive_plus
compile_possessive_plus(c, expr) ==
    PossessiveMain(c, extract_pattern_chars(expr))

\* compile_possessive_star after `let possessive_plus =
\* self.compile_possessive_plus(expr)?`.
PossessiveStarOf(possessive_plus) ==
    IF possessive_plus.err # "Ok" THEN possessive_plus
    ELSE LET n == possessive_plus.c.nfa
             end_state == AddedId(n)
             n1 == epsilon(n, UNPATCHED)
             start_state == AddedId(n1)
             n2 == split(n1, <<possessive_plus.start, end_state>>)
             n3 == connect(n2, possessive_plus.end, end_state)
         IN Ok(WithNfa(possessive_plus.c, n3), start_state, end_state)

\* Compiler::compile_possessive_star
compile_possessive_star(c, expr) ==
    PossessiveStarOf(compile_possessive_plus(c, expr))

\* The non-possessive arm of compile_star after `let expr_fragment =
\* self.compile_hir(expr)?`.
StarOf(expr_fragment, reluctant) ==
    IF expr_fragment.err # "Ok" THEN expr_fragment
    ELSE LET end_state == AddedId(expr_fragment.c.nfa)
             n1 == epsilon(expr_fragment.c.nfa, 0)
             start_state == AddedId(n1)
             n2 == split(n1, SplitTargets(reluctant, expr_fragment.start, end_state))
             n3 == connect(n2, expr_fragment.end, start_state)
         IN Ok(WithNfa(expr_fragment.c, n3), start_state, end_state)

\* Compiler::compile_star
compile_star(c, expr, possessive, reluctant) ==
    IF possessive THEN compile_possessive_star(c, expr)
    ELSE StarOf(compile_hir(c, expr), reluctant)

\* Mutant of PlusOf: the fragment is entered through the Split, as for *.
PlusOf_EntersThroughSplit(expr_fragment, reluctant) ==
    IF expr_fragment.err # "Ok" THEN expr_fragment
    ELSE LET end_state == AddedId(expr_fragment.c.nfa)
             n1 == epsilon(expr_fragment.c.nfa, 0)
             loop_state == AddedId(n1)
             n2 == split(n1, SplitTargets(reluctant, expr_fragment.start, end_state))
             n3 == connect(n2, expr_fragment.end, loop_state)
         IN Ok(WithNfa(expr_fragment.c, n3), loop_state, end_state)

\* The non-possessive arm of compile_plus after `let expr_fragment =
\* self.compile_hir(expr)?`.
PlusOf(expr_fragment, reluctant) ==
    IF expr_fragment.err # "Ok" THEN expr_fragment
    ELSE LET end_state == AddedId(expr_fragment.c.nfa)
             n1 == epsilon(expr_fragment.c.nfa, 0)
             loop_state == AddedId(n1)
             n2 == split(n1, SplitTargets(reluctant, expr_fragment.start, end_state))
             n3 == connect(n2, expr_fragment.end, loop_state)
         IN Ok(WithNfa(expr_fragment.c, n3), expr_fragment.start, end_state)

\* Compiler::compile_plus
compile_plus(c, expr, possessive, reluctant) ==
    IF possessive THEN compile_possessive_plus(c, expr)
    ELSE PlusOf(compile_hir(c, expr), reluctant)

\* `for _ in lo..hi { fragments.push(self.compile_hir(expr)?) }`
RECURSIVE CompileCopies(_, _, _, _)

\* `fragments.push(self.compile_hir(expr)?)` once compile_hir has returned r.
CopyPush(r, expr, k, fragments) ==
    IF r.err # "Ok" THEN [c |-> r.c, fragments |-> fragments, err |-> r.err]
    ELSE CompileCopies(r.c, expr, k - 1,
                       Append(fragments, Fragment(r.start, r.end)))

CompileCopies(c, expr, k, fragments) ==
    IF k <= 0 THEN [c |-> c, fragments |-> fragments, err |-> "Ok"]
    ELSE CopyPush(compile_hir(c, expr), expr, k, fragments)

\* `for i in 0..min.saturating_sub(1) { connect(fragments[i].end,
\* fragments[i + 1].start) }` (i is 1-based here).
RECURSIVE ConnectRequired(_, _, _, _)
ConnectRequired(n, fragments, i, min) ==
    IF i >= min THEN n
    ELSE ConnectRequired(connect(n, fragments[i].end, fragments[i + 1].start),
                         fragments, i + 1, min)

\* `for i in min..max { if i < fragments.len() { split; connect;
\* current_end = fragments[i].end } }` (i is the 0-based index of the code).
RECURSIVE OptionalLoop(_, _, _, _, _, _)
OptionalLoop(n, fragments, i, max, end_state, current_end) ==
    IF i >= max THEN [nfa |-> n, current_end |-> current_end]
    ELSE IF i < Len(fragments)
    THEN LET split_id == AddedId(n)
             n1 == split(n, <<fragments[i + 1].start, end_state>>)
             n2 == connect(n1, current_end, split_id)
         IN OptionalLoop(n2, fragments, i + 1, max, end_state, fragments[i + 1].end)
    ELSE OptionalLoop(n, fragments, i + 1, max, end_state, current_end)

\* The bounded arm of compile_counted after its loop (o): `self.nfa.connect(
\* current_end, end_state)` and the returned fragment.
CountedBounded(c, o, start, end_state) ==
    Ok(WithNfa(c, connect(o.nfa, o.current_end, end_state)), start, end_state)

\* The unbounded arm of compile_counted after `let loop_expr =
\* self.compile_hir(expr)?`.
CountedUnbounded(loop_expr, last_required, start, end_state) ==
    IF loop_expr.err # "Ok" THEN loop_expr
    ELSE LET split_id == AddedId(loop_expr.c.nfa)
             n3 == split(loop_expr.c.nfa, <<loop_expr.start, end_state>>)
             n4 == connect(n3, last_required, split_id)
             n5 == connect(n4, loop_expr.end, split_id)
         IN Ok(WithNfa(loop_expr.c, n5), start, end_state)

\* compile_counted from `let end_state = self.nfa.epsilon(0)` on: n1 is the
\* NFA with the required parts connected; last is fragments[min - 1].end,
\* or start when min = 0.
CountedEnd(c, fragments, n1, expr, min, max, last) ==
    IF max # None
    THEN CountedBounded(c,
            OptionalLoop(epsilon(n1, 0), fragments, min, max[1],
                         AddedId(n1), last),
            fragments[1].start, AddedId(n1))
    ELSE CountedUnbounded(compile_hir(WithNfa(c, epsilon(n1, 0)), expr),
                          last, fragments[1].start, AddedId(n1))

\* compile_counted after the second loop that fills fragments (opt):
\* the empty case, then "Connect required parts in sequence".
CountedConnect(opt, expr, min, max) ==
    IF opt.err # "Ok" THEN Err(opt.c, opt.err)
    ELSE IF opt.fragments = <<>> THEN compile_empty(opt.c)
    ELSE CountedEnd(opt.c, opt.fragments,
                    ConnectRequired(opt.c.nfa, opt.fragments, 1, min),
                    expr, min, max,
                    IF min > 0 THEN opt.fragments[min].end
                    ELSE opt.fragments[1].start)

\* compile_counted after the loop of the required repetitions (req): the
\* optional repetitions when max is bounded.
CountedOptional(req, expr, min, max) ==
    IF req.err # "Ok" THEN Err(req.c, req.err)
    ELSE CountedConnect(IF max # None
                        THEN CompileCopies(req.c, expr, max[1] - min,
                                           req.fragments)
                        ELSE req,
                        expr, min, max)

\* Compiler::compile_counted
compile_counted(c, expr, min, max, possessive) ==
    CountedOptional(CompileCopies(c, expr, min, <<>>), expr, min, max)

\* Compiler::compile_repetition
compile_repetition(c, rep) ==
    LET possessive == rep.rkind = "Possessive"
        reluctant == rep.rkind = "Reluctant"
    IN CASE rep.min = 0 /\ rep.max = Some(1) ->
              compile_question(c, rep.sub, possessive, reluctant)
         [] rep.min = 0 /\ rep.max = None ->
              compile_star(c, rep.sub, possessive, reluctant)
         [] rep.min = 1 /\ rep.max = None ->
              compile_plus(c, rep.sub, possessive, reluctant)
         [] OTHER -> compile_counted(c, rep.sub, rep.min, rep.max, possessive)

\* Compiler::compile_hir
\* Mutant of compile_hir: a Look node is lowered as the empty pattern.
compile_hir_LookIsEmpty(c, h) ==
    CASE h.kind = "Empty" -> compile_empty(c)
      [] h.kind = "Literal" -> compile_literal(c, h.bytes)
      [] h.kind = "Class" -> compile_class(c, h)
      [] h.kind = "Look" -> compile_empty(c)
      [] h.kind = "Repetition" -> compile_repetition(c, h)
      [] h.kind = "Capture" -> compile_hir(c, h.sub)
      [] h.kind = "Concat" -> compile_concat(c, h.subs)
      [] h.kind = "Alternation" -> compile_alternation(c, h.subs)

\* Compiler::compile_hir
compile_hir(c, h) ==
    CASE h.kind = "Empty" -> compile_empty(c)
      [] h.kind = "Literal" -> compile_literal(c, h.bytes)
      [] h.kind = "Class" -> compile_class(c, h)
      [] h.kind = "Look" -> Err(c, "UnsupportedFeature")
      [] h.kind = "Repetition" -> compile_repetition(c, h)
      [] h.kind = "Capture" -> compile_hir(c, h.sub)
      [] h.kind = "Concat" -> compile_concat(c, h.subs)
      [] h.kind = "Alternation" -> compile_alternation(c, h.subs)

\* Mutant of Finish: the end of the fragment is not connected to the Match
\* state.
Finish_EndNotConnected(fragment) ==
    IF fragment.err # "Ok"
    THEN [err |-> fragment.err, nfa |-> NewNFA, loops |-> <<>>]
    ELSE [err |-> "Ok",
          nfa |-> match_state([fragment.c.nfa EXCEPT !.start = fragment.start]),
          loops |-> fragment.c.loops]

\* compile after `let fragment = self.compile_hir(hir)?`: the start state,
\* the Match state, and the connection of the fragment's end to it.
Finish(fragment) ==
    IF fragment.err # "Ok"
    THEN [err |-> fragment.err, nfa |-> NewNFA, loops |-> <<>>]
    ELSE [err |-> "Ok",
          nfa |-> connect(match_state([fragment.c.nfa EXCEPT
                                          !.start = fragment.start]),
                          fragment.end, AddedId(fragment.c.nfa)),
          loops |-> fragment.c.loops]

\* Compiler::compile: on Ok the finished NFA (with the record of its
\* possessive loop nodes); on Err no NFA is returned.
compile(h, order) == Finish(compile_hir(NewCompiler(order), h))

(***************************************************************************)
(* The patterns and inputs of the model                                    *)
(***************************************************************************)

\* Code points of 'a', 'b', 'c'.
Sym == [a |-> 97, b |-> 98, c |-> 99]

LitA == HLiteral(<<Sym.a>>)
LitB == HLiteral(<<Sym.b>>)
LitAB == HLiteral(<<Sym.a, Sym.b>>)
ClassAB == HClassUnicode(<< <<Sym.a, Sym.b>> >>)
ClassABC == HClassUnicode(<< <<Sym.a, Sym.c>> >>)
BytesAB == HClassBytes(<< <<Sym.a, Sym.b>> >>)
\* [^ab] as the parser hands it over: the complement as two ranges.
NegAB == HClassUnicode(<< <<0, Sym.a - 1>>, <<Sym.b + 1, 1114111>> >>)
\* [^b]
NegB == HClassUnicode(<< <<0, Sym.b - 1>>, <<Sym.b + 1, 1114111>> >>)
EmptyClass == HClassUnicode(<<>>)

\* "\u{e9}" in UTF-8, and a byte string that is not UTF-8.
LitEAcute == HLiteral(<<195, 169>>)
LitNotUtf8 == HLiteral(<<Sym.a, 255>>)

Atoms ==
    {HEmpty, HLiteral(<<>>), LitA, LitAB, LitEAcute, LitNotUtf8,
     ClassAB, ClassABC, BytesAB,
     NegAB, NegB, EmptyClass, HLook("End"), HLook("WordAscii")}

RepKinds == {"Greedy", "Reluctant", "Possessive"}

\* (min, max) of ?, *, +, {2}, {0,2}, {1,2}, {2,}, {0}
RepBounds ==
    {<<0, Some(1)>>, <<0, None>>, <<1, None>>, <<2, Some(2)>>,
     <<0, Some(2)>>, <<1, Some(2)>>, <<2, None>>, <<0, Some(0)>>}

Repetitions ==
    {HRepetition(b[1], b[2], k, sub) :
        b \in RepBounds, k \in RepKinds, sub \in {LitA, ClassAB}}
    \cup {HRepetition(b[1], b[2], "Possessive", NegAB) :
            b \in {<<1, None>>, <<0, None>>}}
    \cup {HRepetition(1, None, "Greedy", NegAB),
          HRepetition(0, Some(2), "Greedy", HRepetition(0, Some(1), "Greedy", LitA)),
          HRepetition(1, None, "Possessive", HCapture(LitA))}
    \cup {HRepetition(b[1], b[2], k, HLook("End")) :
            b \in {<<1, None>>, <<0, Some(1)>>, <<2, Some(2)>>},
            k \in {"Greedy", "Possessive"}}

APlus(k) == HRepetition(1, None, k, LitA)
AStar(k) == HRepetition(0, None, k, LitA)

Concats ==
    {HConcat(<<x, y>>) :
        x \in {LitA, ClassAB, HCapture(LitA), HLook("Start"), NegAB}
              \cup {APlus(k) : k \in RepKinds} \cup {AStar(k) : k \in RepKinds},
        y \in {LitAB, HLook("End"), HLook("Start")}}
    \cup {HConcat(<<>>), HConcat(<<LitA>>), HConcat(<<HLook("End")>>),
          HConcat(<<LitA, ClassAB, LitB>>),
          HConcat(<<APlus("Possessive"), HLook("End"), LitB>>),
          HConcat(<<HCapture(APlus("Possessive")), HLook("End")>>),
          HConcat(<<HRepetition(1, None, "Possessive", ClassAB), LitAB>>),
          HConcat(<<NegAB, NegB>>)}

Alternations ==
    {HAlternation(<<LitA, LitB>>), HAlternation(<<LitA, LitAB>>),
     HAlternation(<<LitAB, LitA>>), HAlternation(<<>>), HAlternation(<<LitA>>),
     HAlternation(<<LitA, LitB, HLiteral(<<Sym.c>>)>>),
     HAlternation(<<LitA, HLook("End")>>),
     HAlternation(<<APlus("Possessive"), ClassAB>>),
     HAlternation(<<NegAB, LitA>>),
     HAlternation(<<HEmpty, LitA>>)}

Captures ==
    {HCapture(LitA), HCapture(HEmpty), HCapture(APlus("Possessive")),
     HCapture(HLook("End")), HCapture(NegAB)}

HIRs == Atoms \cup Repetitions \cup Concats \cup Alternations \cup Captures

InputAlphabet == {Sym.a, Sym.b, Sym.c}

RECURSIVE Strings(_)
Strings(k) ==
    IF k = 0 THEN {<<>>}
    ELSE LET shorter == Strings(k - 1)
         IN shorter \cup {Append(s, x) : s \in {t \in shorter : Len(t) = k - 1},
                                          x \in InputAlphabet}

\* Inputs of the scenarios that are longer than MaxLen.
ScenarioInputs ==
    {<<Sym.a, Sym.a, Sym.a, Sym.b>>, <<Sym.a, Sym.b, Sym.a, Sym.b>>}

Inputs == Strings(MaxLen) \cup ScenarioInputs

\* The iteration orders of the first two HashSets of a compile: one digit
\* for each.
HashDigits == 0..(MaxHashOrders - 1)

HashOrders == { << <<j>>, <<k>> >> : j, k \in HashDigits }

(***************************************************************************)
(* The state machine: a client compiles a pattern (possibly twice, with    *)
(* two Compilers) and runs the Matcher of the compiled NFA on one input.   *)
(***************************************************************************)

NoRun == [done |-> FALSE, err |-> "Ok", nfa |-> NewNFA]

Init ==
    /\ pc = "init"
    /\ hir = HEmpty
    /\ nfa = NewNFA
    /\ err = "Ok"
    /\ loops = <<>>
    /\ rerun = NoRun
    /\ input = None
    /\ matched = None
    /\ found = None
    /\ all = None
    /\ lowered = None

\* Compiler::new().compile(&h)
Compile(h, order) ==
    /\ pc = "init"
    /\ \E r \in {compile(h, order)} :
        /\ hir' = h
        /\ nfa' = r.nfa
        /\ err' = r.err
        /\ loops' = r.loops
        /\ pc' = IF r.err = "Ok" THEN "compiled" ELSE "failed"
    /\ UNCHANGED <<rerun, input, matched, found, all, lowered>>

\* A second, independent Compiler::new().compile(&hir) of the same HIR.
CompileAgain(order) ==
    /\ pc \in {"compiled", "failed"}
    /\ ~rerun.done
    /\ input = None
    /\ \E r \in {compile(hir, order)} :
        rerun' = [done |-> TRUE, err |-> r.err, nfa |-> r.nfa]
    /\ UNCHANGED <<pc, hir, nfa, err, loops, input, matched, found, all, lowered>>

\* The matcher borrows the compiled NFA; the client runs it on one input.
Feeds(s) == pc = "compiled" /\ (input = None \/ input = Some(s))

\* Matcher::new(&nfa).is_match(s)
IsMatch(s) ==
    /\ Feeds(s)
    /\ matched = None
    /\ input' = Some(s)
    /\ matched' = Some(is_match(nfa, s))
    /\ UNCHANGED <<pc, hir, nfa, err, loops, rerun, found, all, lowered>>

\* Matcher::new(&nfa).find(s)
Find(s) ==
    /\ Feeds(s)
    /\ found = None
    /\ input' = Some(s)
    /\ found' = Some(find(nfa, s))
    /\ UNCHANGED <<pc, hir, nfa, err, loops, rerun, matched, all, lowered>>

\* Matcher::new(&nfa).find_all(s)
FindAll(s) ==
    /\ Feeds(s)
    /\ all = None
    /\ input' = Some(s)
    /\ all' = Some(find_all(nfa, s))
    /\ UNCHANGED <<pc, hir, nfa, err, loops, rerun, matched, found, lowered>>

Next ==
    \/ \E h \in HIRs, order \in HashOrders : Compile(h, order)
    \/ \E order \in HashOrders : CompileAgain(order)
    \/ \E s \in Inputs : IsMatch(s)
    \/ \E s \in Inputs : Find(s)
    \/ \E s \in Inputs : FindAll(s)

Spec == Init /\ [][Next]_vars

\* The client that compiles a pattern once and searches one input with find.
SearchNext ==
    \/ \E h \in HIRs, order \in HashOrders : Compile(h, order)
    \/ \E s \in Inputs : Find(s)

SearchSpec == Init /\ [][SearchNext]_vars

(***************************************************************************)
(* A client that compiles a negated class, two such classes in a row, or a *)
(* class with a wide range, and runs the matcher on an input of at most    *)
(* one symbol (ClassSpec). The rejection sets of its classes hold at most  *)
(* two symbols, so HashOrders gives every order their HashSets can have.   *)
(***************************************************************************)

\* [\u{1000}-\u{17FF}]: one range of 2048 symbols.
WideRange == HClassUnicode(<< <<4096, 6143>> >>)

\* [^ab][^ab]: one compile that iterates two HashSets.
NegABTwice == HConcat(<<NegAB, NegAB>>)

WideClasses == {NegAB, NegB, WideRange, NegABTwice}

\* The empty input, a rejected symbol, symbols inside and outside the wide
\* range.
WideInputs == {<<>>, <<Sym.a>>, <<Sym.b>>, <<256>>, <<4096>>, <<5000>>, <<6143>>}

ClassNext ==
    \/ \E h \in WideClasses, order \in HashOrders : Compile(h, order)
    \/ \E order \in HashOrders : CompileAgain(order)
    \/ \E s \in WideInputs : IsMatch(s)
    \/ \E s \in WideInputs : Find(s)
    \/ \E s \in WideInputs : FindAll(s)

ClassSpec == Init /\ [][ClassNext]_vars

(***************************************************************************)
(* The lowering of one class by compile_unicode_class on a new Compiler    *)
(* (LowerSpec). A negated class with a wide gap gets 201 or 202 rejection  *)
(* transitions in the order of a HashSet, one of the 201! or 202! orders,  *)
(* so the state keeps what does not depend on the order: which transitions *)
(* the returned Vec holds and how many times each.                         *)
(***************************************************************************)

\* [^\u{100}-\u{1FF}]: the gap between the two ranges holds 256 symbols.
NegWide == HClassUnicode(<< <<0, 255>>, <<512, 1114111>> >>)
\* [\u{12C}-\u{190}\u{1F4}-\u{10FFFF}]: 300 symbols before the first range
\* and 99 between the two.
NegWideTwoGaps == HClassUnicode(<< <<300, 400>>, <<500, 1114111>> >>)
\* [^\u{100}-\u{1C7}]: the gap between the two ranges holds 200 symbols.
NegGap200 == HClassUnicode(<< <<0, 255>>, <<456, 1114111>> >>)

\* The negated classes [first..=last, last+1+gap..=10FFFF]: `first` symbols
\* before the first range and `gap` symbols between the two ranges.
NarrowGapClasses ==
    { HClassUnicode(<< <<first, last>>, <<last + 1 + gap, 1114111>> >>) :
        first \in 0..3, last \in {96, 255, 299}, gap \in 1..9 }

LoweredClasses == NarrowGapClasses \cup {NegWide, NegWideTwoGaps, NegGap200}

\* The elements of a Vec with the number of times each occurs.
Occurrences(vec) ==
    [x \in { vec[i] : i \in 1..Len(vec) } |->
        Cardinality({ i \in 1..Len(vec) : vec[i] = x })]

\* vec.len(), from the occurrences of its elements.
TotalOccurrences(occ) ==
    Cardinality(UNION { { <<x, k>> : k \in 1..occ[x] } : x \in DOMAIN occ })

\* let mut compiler = Compiler::new();
\* compiler.compile_unicode_class(&class): the compiler's NFA after the call
\* (it has the Rejected state when the class is lowered as negated) and the
\* occurrences of the transitions of the Vec the call returns.
LowerClass(h, order) ==
    /\ pc = "init"
    /\ \E r \in {compile_unicode_class(NewCompiler(order), h.ranges)} :
          /\ nfa' = r.c.nfa
          /\ lowered' = Some(Occurrences(r.transitions))
    /\ hir' = h
    /\ pc' = "lowered"
    /\ UNCHANGED <<err, loops, rerun, input, matched, found, all>>

LowerNext == \E h \in LoweredClasses, order \in HashOrders : LowerClass(h, order)

LowerSpec == Init /\ [][LowerNext]_vars

(***************************************************************************)
(* Clients of nfa.rs. One builds an NFA by hand with any of the builder    *)
(* operations, add_state with a Match state among them, or obtains it from *)
(* the compiler (BuilderSpec). The other is the tests of matcher.rs: it    *)
(* builds an NFA from single transitions with target 0 and a Match state,  *)
(* connects them, sets the public field start and runs is_match on the     *)
(* result (TestSpec).                                                      *)
(***************************************************************************)

\* The size of the hand-built NFAs is at most MaxStates: the number of their
\* states and of the targets that connect has appended to their Splits.
MaxStates == 3

\* The arguments the first client passes to the builder operations.
BuilderNexts == {0}
NewSplitTargets == <<1, 0>>
BuilderSplits == {NewSplitTargets}
BuilderTransitions == {TDot(0)}
BuilderStates == {StMatch}
BuilderTransitionLists ==
    {<<TChar(Sym.a, UNPATCHED), TChar(Sym.b, 0), TChar(Sym.c, UNPATCHED)>>}
BuilderIds == 0..(MaxStates - 1)

\* The transitions and the inputs of the tests of matcher.rs ("x" is 'c'
\* here).
TestTransitions ==
    {TCharWithLookahead(Sym.a, Sym.b, 0), TChar(Sym.a, 0), TChar(Sym.b, 0),
     TDot(0)}
TestInputs ==
    {<<>>, <<Sym.a>>, <<Sym.b>>, <<Sym.c>>, <<Sym.a, Sym.b>>, <<Sym.a, Sym.c>>}

\* The targets that connect has appended to the Splits of n, each as the
\* pair of the Split's id and the target's index.
AppendedTargets(n) ==
    UNION { { <<id, i>> :
                i \in (Len(NewSplitTargets) + 1)..Len(StateAt(n, id).targets) } :
            id \in { d \in 0..(Len(n.states) - 1) : StateAt(n, d).kind = "Split" } }

BuilderSize(n) == Len(n.states) + Cardinality(AppendedTargets(n))

\* The client may still add a state or a target.
Building == pc \in {"init", "build"} /\ BuilderSize(nfa) < MaxStates

\* The client goes on with the NFA n.
Built(n) ==
    /\ nfa' = n
    /\ pc' = "build"
    /\ UNCHANGED <<hir, err, loops, rerun, input, matched, found, all, lowered>>

\* nfa.add_state(state)
BuildAddState(state) == Building /\ Built(add_state(nfa, state))

\* nfa.epsilon(next)
BuildEpsilon(next) == Building /\ Built(epsilon(nfa, next))

\* nfa.split(targets)
BuildSplit(targets) == Building /\ Built(split(nfa, targets))

\* nfa.transition_state(transition)
BuildTransition(transition) ==
    Building /\ Built(transition_state(nfa, transition))

\* nfa.transitions_state(transitions)
BuildTransitions(transitions) ==
    Building /\ Built(transitions_state(nfa, transitions))

\* nfa.match_state()
BuildMatch == Building /\ Built(match_state(nfa))

\* nfa.rejected_state()
BuildRejected == Building /\ Built(rejected_state(nfa))

\* nfa.connect(from, to); a Split is extended while the size allows it.
BuildConnect(from, to) ==
    /\ pc = "build"
    /\ (from < Len(nfa.states) /\ StateAt(nfa, from).kind = "Split")
          => BuilderSize(nfa) < MaxStates
    /\ Built(connect(nfa, from, to))

\* `nfa.start = id;` and `let matcher = Matcher::new(&nfa);`
BuildStart(id) ==
    /\ pc = "build"
    /\ id < Len(nfa.states)
    /\ nfa' = [nfa EXCEPT !.start = id]
    /\ pc' = "built"
    /\ UNCHANGED <<hir, err, loops, rerun, input, matched, found, all, lowered>>

\* matcher.is_match(s) on the hand-built NFA
BuildIsMatch(s) ==
    /\ pc = "built"
    /\ matched = None
    /\ input' = Some(s)
    /\ matched' = Some(is_match(nfa, s))
    /\ UNCHANGED <<pc, hir, nfa, err, loops, rerun, found, all, lowered>>

BuilderNext ==
    \/ \E h \in HIRs, order \in HashOrders : Compile(h, order)
    \/ \E state \in BuilderStates : BuildAddState(state)
    \/ \E next \in BuilderNexts : BuildEpsilon(next)
    \/ \E targets \in BuilderSplits : BuildSplit(targets)
    \/ \E transition \in BuilderTransitions : BuildTransition(transition)
    \/ \E transitions \in BuilderTransitionLists : BuildTransitions(transitions)
    \/ BuildMatch
    \/ BuildRejected
    \/ \E from \in 0..MaxStates, to \in BuilderIds : BuildConnect(from, to)

BuilderSpec == Init /\ [][BuilderNext]_vars

TestNext ==
    \/ \E transition \in TestTransitions : BuildTransition(transition)
    \/ BuildMatch
    \/ \E from \in 0..MaxStates, to \in BuilderIds : BuildConnect(from, to)
    \/ \E id \in BuilderIds : BuildStart(id)
    \/ \E s \in TestInputs : BuildIsMatch(s)

TestSpec == Init /\ [][TestNext]_vars

(***************************************************************************)
(* A client that builds any NFA by hand, with Epsilon and Split cycles and *)
(* edges to ids outside states, sets start and runs one operation of the   *)
(* Matcher on it (MatchSpec).                                              *)
(***************************************************************************)

MatchInputs == {<<>>, <<Sym.a>>, <<Sym.a, Sym.b>>}

\* matcher.find(s) on the hand-built NFA
BuildFind(s) ==
    /\ pc = "built"
    /\ input = None
    /\ input' = Some(s)
    /\ found' = Some(find(nfa, s))
    /\ UNCHANGED <<pc, hir, nfa, err, loops, rerun, matched, all, lowered>>

\* matcher.find_all(s) on the hand-built NFA
BuildFindAll(s) ==
    /\ pc = "built"
    /\ input = None
    /\ input' = Some(s)
    /\ all' = Some(find_all(nfa, s))
    /\ UNCHANGED <<pc, hir, nfa, err, loops, rerun, matched, found, lowered>>

MatchNext ==
    \/ \E state \in BuilderStates : BuildAddState(state)
    \/ \E next \in BuilderNexts : BuildEpsilon(next)
    \/ \E targets \in BuilderSplits : BuildSplit(targets)
    \/ \E transition \in BuilderTransitions : BuildTransition(transition)
    \/ BuildMatch
    \/ \E from \in 0..MaxStates, to \in BuilderIds : BuildConnect(from, to)
    \/ \E id \in BuilderIds : BuildStart(id)
    \/ \E s \in MatchInputs : input = None /\ BuildIsMatch(s)
    \/ \E s \in MatchInputs : BuildFind(s)
    \/ \E s \in MatchInputs : BuildFindAll(s)

MatchSpec == Init /\ [][MatchNext]_vars

(***************************************************************************)
(* Properties                                                              *)
(***************************************************************************)

Compiled == pc = "compiled"

TransitionsOf(n, id) ==
    { StateAt(n, id).transitions[i] : i \in 1..Len(StateAt(n, id).transitions) }

TransitionStateIds(n) ==
    { id \in 0..(Len(n.states) - 1) : StateAt(n, id).kind = "Transitions" }

PossessiveAB == HConcat(<<APlus("Possessive"), LitAB>>)
GreedyAB == HConcat(<<APlus("Greedy"), LitAB>>)
StrAAAB == <<Sym.a, Sym.a, Sym.a, Sym.b>>
StrAAA == <<Sym.a, Sym.a, Sym.a>>
StrAA == <<Sym.a, Sym.a>>

\* C1 (P1/I1): in every NFA returned by compile no transition target equals
\* the UNPATCHED sentinel and every transition target is a valid index into
\* nfa.states.
C1_NoUnpatchedTarget ==
    Compiled =>
        \A id \in TransitionStateIds(nfa) : \A t \in TransitionsOf(nfa, id) :
            t.target # UNPATCHED /\ t.target >= 0 /\ t.target < Len(nfa.states)

\* `a++ab` compiled: its possessive loop node carries two patched
\* transitions.
C1_Witness ==
    /\ Compiled
    /\ hir = PossessiveAB
    /\ \E id \in TransitionStateIds(nfa) : Cardinality(TransitionsOf(nfa, id)) = 2

\* C2 (S5): `a++ab` on `aaab` yields no match (is_match false, no match
\* [0,4) reported), while `a+ab` on `aaab` matches [0,4).
C2_S5_PossessiveGivesNoMatch ==
    (Compiled /\ input = Some(StrAAAB)) =>
        /\ (hir = PossessiveAB /\ matched # None) => matched = Some(FALSE)
        /\ (hir = PossessiveAB /\ found # None) =>
               found # Some(Some(MatchResult(0, 4)))
        /\ (hir = GreedyAB /\ found # None) =>
               found = Some(Some(MatchResult(0, 4)))

\* The iterations of the loop of match_at(chars, start) that call
\* step_states: the pairs <<position, current_states>>.
RECURSIVE LoopSteps(_, _, _, _)
LoopSteps(n, chars, position, current_states) ==
    IF position < Len(chars) /\ current_states # {}
    THEN {<<position, current_states>>} \cup
         (LET next_char == IF position + 1 < Len(chars)
                           THEN Some(CharAt(chars, position + 1)) ELSE None
              next_states == step_states(n, current_states,
                                         CharAt(chars, position), next_char)
              cs == epsilon_closure(n, next_states)
          IN IF next_states = {} \/ is_accepting(n, cs) THEN {}
             ELSE LoopSteps(n, chars, position + 1, cs))
    ELSE {}

MatchAtSteps(n, chars, start) ==
    LET current_states == epsilon_closure(n, {n.start})
    IN IF is_accepting(n, current_states) /\ start <= Len(chars) THEN {}
       ELSE LoopSteps(n, chars, start, current_states)

\* The transitions of state id that fire at position p of chars.
FiredAt(n, id, chars, p) ==
    { t \in TransitionsOf(n, id) :
        transition_matches(t, CharAt(chars, p),
            IF p + 1 < Len(chars) THEN Some(CharAt(chars, p + 1)) ELSE None) }

\* C3: for a possessive loop node P over C, on a current symbol c in C the
\* simulation step never fires both an in-loop transition (target P) and an
\* exit transition (target E) at the same position.
C3_LoopAndExitNeverBothFire ==
    (Compiled /\ matched # None) =>
        \A i \in 1..Len(loops) :
            \A step \in MatchAtSteps(nfa, input[1], 0) :
                (loops[i].P \in step[2] /\ CharAt(input[1], step[1]) \in loops[i].C)
                => ~(/\ \E t \in FiredAt(nfa, loops[i].P, input[1], step[1]) :
                          t.target = loops[i].P
                     /\ \E t \in FiredAt(nfa, loops[i].P, input[1], step[1]) :
                          t.target = loops[i].E)

\* C4 (P5): in every NFA returned by compile, every outgoing transition of a
\* possessive loop node P over C has either a lookahead in C and target P, or
\* no lookahead and the exit state E as target (not P, not UNPATCHED).
C4_PossessiveLoopShape ==
    Compiled =>
        \A i \in 1..Len(loops) :
            LET P == loops[i].P
                E == loops[i].E
            IN /\ StateAt(nfa, P).kind = "Transitions"
               /\ \A t \in TransitionsOf(nfa, P) :
                    \/ /\ t.lookahead # None
                       /\ t.lookahead[1] \in loops[i].C
                       /\ t.target = P
                    \/ /\ t.lookahead = None
                       /\ t.target = E
                       /\ t.target # P
                       /\ t.target # UNPATCHED
                       /\ t.target < Len(nfa.states)

\* [ab]++ compiled: a loop node over two symbols with four transitions.
C4_Witness ==
    /\ Compiled
    /\ \E i \in 1..Len(loops) :
          /\ Cardinality(loops[i].C) = 2
          /\ Cardinality(TransitionsOf(nfa, loops[i].P)) = 4

\* C5 (S2): greedy `a*` with find reports [0,3) on `aaa` and [0,0) on the
\* empty input.
C5_S2_StarMatchesAll ==
    (Compiled /\ hir = AStar("Greedy") /\ found # None) =>
        /\ input = Some(StrAAA) => found = Some(Some(MatchResult(0, 3)))
        /\ input = Some(<<>>) => found = Some(Some(MatchResult(0, 0)))

\* The current set after all of chars has been consumed, starting from
\* epsilon_closure({start}) (empty once no transition fires).
RECURSIVE ConsumeAll(_, _, _, _)
ConsumeAll(n, chars, position, current_states) ==
    IF position >= Len(chars) THEN current_states
    ELSE ConsumeAll(n, chars, position + 1,
            epsilon_closure(n,
                step_states(n, current_states, CharAt(chars, position),
                    IF position + 1 < Len(chars)
                    THEN Some(CharAt(chars, position + 1)) ELSE None)))

AcceptsWhole(n, chars) ==
    is_accepting(n, ConsumeAll(n, chars, 0, epsilon_closure(n, {n.start})))

\* C6: is_match(input) is true exactly when the current set contains an
\* accepting state after all len(input) symbols have been consumed; in
\* particular is_match("aa") is true for greedy `a+` and `a*`.
C6_IsMatchIsWholeInputAcceptance ==
    (Compiled /\ matched # None) =>
        /\ matched[1] <=> AcceptsWhole(nfa, input[1])
        /\ (hir \in {APlus("Greedy"), AStar("Greedy")} /\ input = Some(StrAA))
              => matched[1]

\* C7 (L1): is_match(s) is true iff find(s) is the match [0, len(s)).
C7_L1_IsMatchIffFindWhole ==
    (Compiled /\ matched # None /\ found # None) =>
        (matched[1] <=> found[1] = Some(MatchResult(0, Len(input[1]))))

\* is_match and find both ran on a non-empty input that matches as a whole.
C7_Witness ==
    /\ Compiled
    /\ matched = Some(TRUE)
    /\ found # None
    /\ Len(input[1]) >= 2

GreedyQuestion == HRepetition(0, Some(1), "Greedy", LitA)
ReluctantQuestion == HRepetition(0, Some(1), "Reluctant", LitA)

\* C8 (L2): where both branches of an ordered Split lead to acceptance, the
\* matcher reports the position of the first target: greedy `a?` / `a*` on an
\* input starting with 'a' give the longer match, reluctant ones the shorter.
C8_L2_SplitOrderDecidesMatch ==
    (Compiled /\ found # None /\ input # None /\ input[1] # <<>>
       /\ input[1][1] = Sym.a) =>
        /\ hir = GreedyQuestion => found[1] = Some(MatchResult(0, 1))
        /\ hir = ReluctantQuestion => found[1] = Some(MatchResult(0, 0))
        /\ hir = AStar("Reluctant") => found[1] = Some(MatchResult(0, 0))
        /\ hir = AStar("Greedy") =>
              (found[1] # None /\ found[1][1].start = 0 /\ found[1][1].end >= 1)

\* C9 (L3): the NFA compiled from the Empty HIR matches every input at
\* position 0 with zero length.
C9_L3_EmptyMatchesAtZero ==
    (hir = HEmpty /\ pc # "init") =>
        /\ Compiled
        /\ found # None => found[1] = Some(MatchResult(0, 0))

\* find ran on the NFA of the Empty HIR with a non-empty input.
C9_Witness ==
    /\ Compiled
    /\ hir = HEmpty
    /\ found # None
    /\ Len(input[1]) >= 2

\* C10 (P4): two independent runs of compile on the same HIR return
\* structurally equal results (same states and transitions in the same
\* order, same start, same accepting set), or the same error.
C10_P4_CompileDeterministic ==
    rerun.done =>
        /\ rerun.err = err
        /\ rerun.nfa.states = nfa.states
        /\ rerun.nfa.start = nfa.start
        /\ rerun.nfa.accepting = nfa.accepting

\* The ids of the Match states of n.
MatchIds(n) == { id \in 0..(Len(n.states) - 1) : StateAt(n, id).kind = "Match" }

\* A step that adds a Match state by add_state itself: the one builder
\* operation of the client that C11 does not name.
AddsMatchDirectly == nfa' = add_state(nfa, StMatch)

\* C11 (P2/I2): after any sequence of the builder operations epsilon, split,
\* transition_state, transitions_state, match_state, rejected_state and
\* connect, and in every NFA returned by compile, accepting is exactly the
\* set of the ids of the Match states: it is so in a new NFA, and every step
\* other than a direct add_state of a Match state keeps it so.
C11_AcceptingIsExactlyMatch ==
    /\ (pc = "init" => nfa.accepting = MatchIds(nfa))
    /\ [][(nfa.accepting = MatchIds(nfa) /\ ~AddsMatchDirectly)
              => nfa'.accepting = MatchIds(nfa')]_vars

\* A hand-built NFA with a Match state, which is accepting, and a Split that
\* connect has extended.
C11_Witness ==
    /\ pc = "build"
    /\ Cardinality(nfa.accepting) = 1
    /\ nfa.accepting = MatchIds(nfa)
    /\ \E id \in 0..(Len(nfa.states) - 1) :
          /\ StateAt(nfa, id).kind = "Split"
          /\ Len(StateAt(nfa, id).targets) = 3

\* What connect(from, to) is to do to the state st of kind Transitions,
\* giving st2.
TransitionsPatched(st, st2, to) ==
    /\ st2.kind = "Transitions"
    /\ Len(st2.transitions) = Len(st.transitions)
    /\ \A i \in 1..Len(st.transitions) :
          /\ st2.transitions[i].current = st.transitions[i].current
          /\ st2.transitions[i].lookahead = st.transitions[i].lookahead
          /\ st2.transitions[i].target =
                IF st.transitions[i].target = UNPATCHED THEN to
                ELSE st.transitions[i].target

\* What connect(from, to) is to do to the state st of kind Split, giving st2.
SplitExtended(st, st2, to) ==
    /\ st2.kind = "Split"
    /\ Len(st2.targets) = Len(st.targets) + 1
    /\ st2.targets[Len(st2.targets)] = to
    /\ \A i \in 1..Len(st.targets) : st2.targets[i] = st.targets[i]

\* The NFA m is n after connect(from, to), for a state `from` of n.
ConnectEffect(n, from, to, m) ==
    /\ Len(m.states) = Len(n.states)
    /\ m.start = n.start
    /\ m.accepting = n.accepting
    /\ \A id \in 0..(Len(n.states) - 1) : id # from => StateAt(m, id) = StateAt(n, id)
    /\ CASE StateAt(n, from).kind = "Epsilon" -> StateAt(m, from) = StEpsilon(to)
         [] StateAt(n, from).kind = "Split" ->
               SplitExtended(StateAt(n, from), StateAt(m, from), to)
         [] StateAt(n, from).kind = "Transitions" ->
               TransitionsPatched(StateAt(n, from), StateAt(m, from), to)
         [] OTHER -> StateAt(m, from) = StateAt(n, from)

\* C15: connect(from, to) sets the next of an Epsilon to `to`, appends `to`
\* as the last target of a Split and keeps the earlier targets in order,
\* rewrites exactly the transitions of a Transitions state whose target is
\* UNPATCHED, and changes nothing for Match and Rejected.
C15_ConnectEffects ==
    [][\A from \in BuilderIds, to \in BuilderIds :
          (from < Len(nfa.states) /\ BuildConnect(from, to))
              => ConnectEffect(nfa, from, to, nfa')]_vars

\* connect has patched a Transitions state of three transitions: the two
\* that were UNPATCHED have the new target, the one with target 0 kept it.
C15_Witness ==
    /\ pc = "build"
    /\ \E id \in 0..(Len(nfa.states) - 1) :
          /\ StateAt(nfa, id).kind = "Transitions"
          /\ Len(StateAt(nfa, id).transitions) = 3
          /\ StateAt(nfa, id).transitions[1].target \in BuilderIds \ {0}
          /\ StateAt(nfa, id).transitions[2].target = 0
          /\ StateAt(nfa, id).transitions[3].target
                = StateAt(nfa, id).transitions[1].target

\* The states one edge away from state id: the targets of its transitions,
\* the next of an Epsilon, the targets of a Split.
Successors(n, id) ==
    IF id >= Len(n.states) THEN {}
    ELSE CASE StateAt(n, id).kind = "Transitions" ->
                { StateAt(n, id).transitions[i].target :
                    i \in 1..Len(StateAt(n, id).transitions) }
           [] StateAt(n, id).kind = "Epsilon" -> { StateAt(n, id).next }
           [] StateAt(n, id).kind = "Split" ->
                { StateAt(n, id).targets[i] : i \in 1..Len(StateAt(n, id).targets) }
           [] OTHER -> {}

\* The states reachable from the set S along Transitions, Epsilon and Split
\* edges.
RECURSIVE Reach(_, _)
Reach(n, S) ==
    IF UNION { Successors(n, id) : id \in S } \subseteq S THEN S
    ELSE Reach(n, S \cup UNION { Successors(n, id) : id \in S })

\* C12 (P3/I3): in every NFA returned by compile, start is a valid index,
\* there is exactly one Match state, and it is reachable from start.
C12_StartReachesTheOnlyMatch ==
    Compiled =>
        /\ nfa.start >= 0 /\ nfa.start < Len(nfa.states)
        /\ Cardinality(MatchIds(nfa)) = 1
        /\ MatchIds(nfa) \cap Reach(nfa, {nfa.start}) # {}

\* `[^ab]++` and the input `xyzab`.
NegABPossessivePlus == HRepetition(1, None, "Possessive", NegAB)
StrXYZAB == <<120, 121, 122, Sym.a, Sym.b>>

\* C13 (S6): `[^ab]++` compiles successfully and, on `xyzab`, find reports
\* the match [0,3).
C13_S6_NegatedPossessiveCompiles ==
    (hir = NegABPossessivePlus /\ pc # "init") =>
        /\ Compiled
        /\ (input = Some(StrXYZAB) /\ found # None) =>
               found = Some(Some(MatchResult(0, 3)))

\* The NFAs of test_simple_match, test_simple_char_match and test_dot_match,
\* built as the tests build them (their start is state 0, the first state).
SimpleMatchNFA ==
    connect(
        connect(
            match_state(
                transition_state(
                    transition_state(NewNFA,
                                     TCharWithLookahead(Sym.a, Sym.b, 0)),
                    TChar(Sym.b, 0))),
            0, 1),
        1, 2)

SimpleCharNFA ==
    connect(match_state(transition_state(NewNFA, TChar(Sym.a, 0))), 0, 1)

DotNFA == connect(match_state(transition_state(NewNFA, TDot(0))), 0, 1)

\* C14: the NFAs built with placeholder target 0 and linked with connect
\* route each transition to the state connected to: T(a, lookahead b) ->
\* T(b) -> Match accepts "ab" and rejects "ac" and "a"; T(a) -> Match
\* accepts "a" and rejects "b"; T(any) -> Match accepts every one-symbol
\* input and rejects "" and "ab".
C14_TestsOfMatcherPass ==
    (pc = "built" /\ matched # None) =>
        /\ (nfa = SimpleMatchNFA
              /\ input[1] \in {<<Sym.a, Sym.b>>, <<Sym.a, Sym.c>>, <<Sym.a>>})
             => (matched[1] <=> input[1] = <<Sym.a, Sym.b>>)
        /\ (nfa = SimpleCharNFA /\ input[1] \in {<<Sym.a>>, <<Sym.b>>})
             => (matched[1] <=> input[1] = <<Sym.a>>)
        /\ (nfa = DotNFA /\ input[1] \in TestInputs \ {<<Sym.a, Sym.c>>})
             => (matched[1] <=> Len(input[1]) = 1)

\* A transition fires at position p of chars: its current slot matches
\* chars[p], and its lookahead is absent or matches the existing chars[p+1].
Fires(t, chars, p) ==
    /\ p < Len(chars)
    /\ (t.current = None \/ t.current = Some(CharAt(chars, p)))
    /\ \/ t.lookahead = None
       \/ /\ p + 1 < Len(chars)
          /\ t.lookahead = Some(CharAt(chars, p + 1))

\* The outgoing transitions of the states of a current set.
OutTransitions(n, states) ==
    UNION { IF StateAt(n, id).kind = "Transitions" THEN TransitionsOf(n, id)
            ELSE {} : id \in states }

\* The current set after k symbols have been consumed from position start,
\* every symbol by the transitions that fire on it.
RECURSIVE StatesAfter(_, _, _, _)
StatesAfter(n, chars, start, k) ==
    IF k = 0 THEN epsilon_closure(n, {n.start})
    ELSE epsilon_closure(n,
            { t.target : t \in { u \in OutTransitions(n,
                                        StatesAfter(n, chars, start, k - 1)) :
                                   Fires(u, chars, start + k - 1) } })

\* match_at(chars, start) ends at `end` exactly when the current set accepts
\* after end - start fired steps and after no fewer.
EndsAfterSteps(n, chars, start, r) ==
    IF r = None
    THEN \A k \in 0..(Len(chars) - start) :
            ~is_accepting(n, StatesAfter(n, chars, start, k))
    ELSE /\ r[1] \in start..Len(chars)
         /\ is_accepting(n, StatesAfter(n, chars, start, r[1] - start))
         /\ \A k \in 0..(r[1] - start - 1) :
               ~is_accepting(n, StatesAfter(n, chars, start, k))

\* C16: in a simulation step at position p a transition fires iff its
\* current slot matches input[p] (an absent current matches every symbol)
\* and its lookahead is absent, or present with input[p+1] existing and
\* matching it; a transition with a lookahead never fires on the last symbol
\* of the input; each fired transition advances the position by exactly one
\* symbol, so a match from start that ends at e was reached by e - start
\* steps.
C16_TransitionFiresIff ==
    (Compiled /\ input # None) =>
        \A start \in 0..Len(input[1]) :
            /\ \A step \in MatchAtSteps(nfa, input[1], start) :
                  /\ \A t \in OutTransitions(nfa, step[2]) :
                        /\ transition_matches(t, CharAt(input[1], step[1]),
                              IF step[1] + 1 < Len(input[1])
                              THEN Some(CharAt(input[1], step[1] + 1))
                              ELSE None)
                           <=> Fires(t, input[1], step[1])
                        /\ (t.lookahead # None /\ step[1] = Len(input[1]) - 1)
                              => ~transition_matches(t,
                                     CharAt(input[1], step[1]), None)
                  /\ step_states(nfa, step[2], CharAt(input[1], step[1]),
                        IF step[1] + 1 < Len(input[1])
                        THEN Some(CharAt(input[1], step[1] + 1)) ELSE None)
                     = { t.target : t \in { u \in OutTransitions(nfa, step[2]) :
                                              Fires(u, input[1], step[1]) } }
            /\ EndsAfterSteps(nfa, input[1], start,
                              match_at(nfa, input[1], start))

\* A matcher ran on an input where, in one step, a transition with a
\* lookahead fires on a symbol that has a successor, and in a step on the
\* last symbol a transition with a lookahead whose current slot matches does
\* not fire while one without lookahead does.
C16_Witness ==
    /\ Compiled
    /\ found # None
    /\ \E start \in 0..Len(input[1]) :
          \E step \in MatchAtSteps(nfa, input[1], start) :
             \E t \in OutTransitions(nfa, step[2]) :
                /\ t.lookahead # None
                /\ step[1] + 1 < Len(input[1])
                /\ Fires(t, input[1], step[1])
    /\ \E start \in 0..Len(input[1]) :
          \E step \in MatchAtSteps(nfa, input[1], start) :
             /\ step[1] = Len(input[1]) - 1
             /\ \E t \in OutTransitions(nfa, step[2]) :
                   /\ t.lookahead # None
                   /\ t.current = Some(CharAt(input[1], step[1]))
                   /\ ~Fires(t, input[1], step[1])
             /\ \E t \in OutTransitions(nfa, step[2]) :
                   /\ t.lookahead = None
                   /\ Fires(t, input[1], step[1])

\* State i of the chain of a literal: one transition on chars[i] without
\* lookahead to state i + 1.
ChainLink(n, chars, i) ==
    /\ StateAt(n, i).kind = "Transitions"
    /\ StateAt(n, i).transitions = <<TChar(CharAt(chars, i), i + 1)>>

\* The NFA of a literal of the given chars: the chain, then the Match state
\* the chain continues to.
LiteralChain(n, chars) ==
    /\ Len(n.states) = Len(chars) + 1
    /\ n.start = 0
    /\ \A i \in 0..(Len(chars) - 1) : ChainLink(n, chars, i)
    /\ StateAt(n, Len(chars)).kind = "Match"

\* C17 (S1): a Literal of n >= 1 symbols compiles to a chain of n
\* Transitions states with one transition each, state i targeting state
\* i + 1 and the last the continuation; on the input equal to the literal
\* find reports [0, n) and is_match is true.
C17_S1_LiteralChain ==
    (Compiled /\ hir.kind = "Literal" /\ LiteralChars(hir.bytes) # <<>>) =>
        /\ LiteralChain(nfa, LiteralChars(hir.bytes))
        /\ input = Some(LiteralChars(hir.bytes)) =>
              /\ found # None =>
                    found = Some(Some(MatchResult(0, Len(input[1]))))
              /\ matched # None => matched = Some(TRUE)

\* `ab` compiled and matched against `ab`.
C17_Witness ==
    /\ Compiled
    /\ hir = LitAB
    /\ input = Some(<<Sym.a, Sym.b>>)
    /\ found = Some(Some(MatchResult(0, 2)))
    /\ matched = Some(TRUE)

\* A class small enough to be compiled symbol by symbol: every range is
\* enumerated and the class is not treated as a negated one.
SmallClass(h) ==
    /\ h.kind = "Class"
    /\ \A i \in 1..Len(h.ranges) : h.ranges[i][2] - h.ranges[i][1] <= EnumRangeLimit
    /\ TotalChars(h.ranges, 1) <= NegatedThreshold

\* An alternation of literals of one symbol each.
SymbolAlternation(h) ==
    /\ h.kind = "Alternation"
    /\ h.subs # <<>>
    /\ \A i \in 1..Len(h.subs) :
          /\ h.subs[i].kind = "Literal"
          /\ Len(LiteralChars(h.subs[i].bytes)) = 1

\* The set S of symbols of such a pattern.
SymbolsOf(h) ==
    IF h.kind = "Class"
    THEN UNION { h.ranges[i][1]..h.ranges[i][2] : i \in 1..Len(h.ranges) }
    ELSE { LiteralChars(h.subs[i].bytes)[1] : i \in 1..Len(h.subs) }

\* C18 (S3/S4): for a small character class or an alternation of single
\* symbols over the set S, find on a one-symbol input c reports [0, 1) if c
\* is in S and no match if c is not in S.
C18_S3S4_OneSymbolOfSet ==
    (/\ Compiled
     /\ SmallClass(hir) \/ SymbolAlternation(hir)
     /\ found # None
     /\ Len(input[1]) = 1) =>
        found[1] = IF input[1][1] \in SymbolsOf(hir)
                   THEN Some(MatchResult(0, 1)) ELSE None

\* S3: `a|b` on `b`.
C18_Witness ==
    /\ Compiled
    /\ hir = HAlternation(<<LitA, LitB>>)
    /\ input = Some(<<Sym.b>>)
    /\ found = Some(Some(MatchResult(0, 1)))

\* From start position s the simulation reaches an accepting state.
ReachesAccepting(n, chars, s) ==
    \E k \in 0..(Len(chars) - s) : is_accepting(n, StatesAfter(n, chars, s, k))

AcceptingStarts(n, chars) ==
    { s \in 0..Len(chars) : ReachesAccepting(n, chars, s) }

\* C19: find(input) is leftmost: it returns a match starting at the smallest
\* position s in 0..=len(input) from which the simulation reaches an
\* accepting state, and None iff no start position in 0..=len(input) reaches
\* one.
C19_FindIsLeftmost ==
    (Compiled /\ found # None) =>
        /\ found[1] = None <=> AcceptingStarts(nfa, input[1]) = {}
        /\ found[1] # None =>
              /\ found[1][1].start \in AcceptingStarts(nfa, input[1])
              /\ \A s \in AcceptingStarts(nfa, input[1]) :
                    found[1][1].start <= s

\* `ab` on `aab`: no match starts at 0, the leftmost one starts at 1.
C19_Witness ==
    /\ Compiled
    /\ hir = LitAB
    /\ input = Some(<<Sym.a, Sym.a, Sym.b>>)
    /\ found = Some(Some(MatchResult(1, 3)))
    /\ AcceptingStarts(nfa, input[1]) = {1}

\* C20: find_all(input) returns matches in strictly increasing start order
\* that do not overlap (each start is >= the previous end); every match has
\* start <= end <= len(input); after an empty match (end = start) the next
\* search begins exactly one symbol later, so a match that starts there is
\* the next one reported.
C20_FindAllOrdered ==
    (Compiled /\ all # None) =>
        /\ \A i \in 1..Len(all[1]) :
              /\ all[1][i].start <= all[1][i].end
              /\ all[1][i].end <= Len(input[1])
        /\ \A i \in 1..(Len(all[1]) - 1) :
              /\ all[1][i].start < all[1][i + 1].start
              /\ all[1][i + 1].start >= all[1][i].end
        /\ \A i \in 1..Len(all[1]) :
              (/\ all[1][i].end = all[1][i].start
               /\ all[1][i].start + 1 < Len(input[1])
               /\ ReachesAccepting(nfa, input[1], all[1][i].start + 1))
              => /\ i < Len(all[1])
                 /\ all[1][i + 1].start = all[1][i].start + 1

\* find_all reported an empty match and, one symbol later, the next match.
C20_Witness ==
    /\ Compiled
    /\ all # None
    /\ \E i \in 1..(Len(all[1]) - 1) :
          /\ all[1][i].end = all[1][i].start
          /\ all[1][i + 1].start = all[1][i].start + 1

\* A Look node is lowered as a standalone node of h (h itself, a capture's
\* sub, an alternation branch, the body of a repetition that lowers its
\* body, the element of a one-element concat) or is the first element of a
\* concat of two or more.
RECURSIVE LookLowered(_)
LookLowered(h) ==
    CASE h.kind = "Look" -> TRUE
      [] h.kind = "Capture" -> LookLowered(h.sub)
      [] h.kind = "Alternation" ->
            \E i \in 1..Len(h.subs) : LookLowered(h.subs[i])
      [] h.kind = "Repetition" ->
            h.max # Some(0) /\ LookLowered(h.sub)
      [] h.kind = "Concat" ->
            IF Len(h.subs) = 1 THEN LookLowered(h.subs[1])
            ELSE Len(h.subs) >= 2 /\ h.subs[1].kind = "Look"
      [] OTHER -> FALSE

\* C21: compile fails with UnsupportedFeature whenever a Look assertion is
\* lowered as a standalone HIR node (top level, alternation branch,
\* repetition body, single-element concat) or is the first element of a
\* concatenation pair; no NFA is returned.
C21_LookIsUnsupported ==
    (pc # "init" /\ LookLowered(hir)) =>
        /\ pc = "failed"
        /\ err = "UnsupportedFeature"
        /\ nfa = NewNFA

\* A Look as an alternation branch: `a|$` was rejected.
C21_Witness ==
    /\ pc = "failed"
    /\ err = "UnsupportedFeature"
    /\ hir = HAlternation(<<LitA, HLook("End")>>)

\* A concat of a possessive repetition and the end anchor.
PossessiveThenEnd(h) ==
    /\ h.kind = "Concat"
    /\ Len(h.subs) = 2
    /\ is_possessive(h.subs[1])
    /\ h.subs[2] = HLook("End")

\* C22 (concat rule 2a): for Concat[a, b] with a a possessive repetition and
\* b an end anchor, compile succeeds and fuses the assertion into the exit
\* transitions of the loop: the NFA differs from the NFA of a alone and does
\* not accept a run of a's symbols that is followed by further input.
C22_EndAnchorFusedIntoExits ==
    (pc # "init" /\ PossessiveThenEnd(hir)) =>
        /\ Compiled
        /\ \A order \in HashOrders : nfa # compile(hir.subs[1], order).nfa
        /\ (found # None /\ found[1] # None) =>
              found[1][1].end = Len(input[1])

\* A concat of a literal or class and an anchor assertion.
PlainThenAnchor(h) ==
    /\ h.kind = "Concat"
    /\ Len(h.subs) = 2
    /\ h.subs[1].kind \in {"Literal", "Class"}
    /\ is_lookahead(h.subs[2])

\* C23 (concat rule 3): for Concat[a, b] with b an anchor assertion and a
\* not possessive (a literal or a class), compile succeeds and every
\* transition reachable from the start of a carries a lookahead derived from
\* b.
C23_AnchorBecomesLookahead ==
    (pc # "init" /\ PlainThenAnchor(hir)) =>
        /\ Compiled
        /\ \A id \in Reach(nfa, {nfa.start}) \cap TransitionStateIds(nfa) :
              \A t \in TransitionsOf(nfa, id) : t.lookahead # None

RejectedIds(n) ==
    { id \in 0..(Len(n.states) - 1) : StateAt(n, id).kind = "Rejected" }

\* The targets of the transitions that lead to a Rejected state.
RejectionTargets(n) ==
    { t.target : t \in { u \in UNION { TransitionsOf(n, id) :
                                         id \in TransitionStateIds(n) } :
                           u.target \in RejectedIds(n) } }

\* C24: the Rejected state is shared across a compile: the returned NFA
\* contains at most one Rejected state and every rejection transition
\* targets that same state.
C24_RejectedIsShared ==
    Compiled =>
        /\ Cardinality(RejectedIds(nfa)) <= 1
        /\ Cardinality(RejectionTargets(nfa)) <= 1

\* A class that compile_unicode_class lowers by the negated-class heuristic.
NegatedClass(h) ==
    /\ h.kind = "Class"
    /\ h.unicode
    /\ TotalChars(h.ranges, 1) > NegatedThreshold

\* C25: for a class lowered by the negated-class heuristic with rejection
\* set Rej, find on the one-symbol input r reports no match for r in Rej and
\* the match [0, 1) for every symbol outside Rej; the Rejected state is never
\* accepting and has no successor.
C25_RejectedSymbolsDoNotMatch ==
    (Compiled /\ NegatedClass(hir)) =>
        /\ \A id \in RejectedIds(nfa) :
              id \notin nfa.accepting /\ Successors(nfa, id) = {}
        /\ (found # None /\ Len(input[1]) = 1) =>
              found[1] = IF input[1][1] \in RejectedChars(hir.ranges)
                         THEN None ELSE Some(MatchResult(0, 1))

\* The transitions to the Rejected state among the lowered transitions.
LoweredRejections ==
    { t \in DOMAIN lowered[1] : t.target \in RejectedIds(nfa) }

\* C26: for every class treated as negated the rejection set holds at most
\* 200 symbols, so the transitions emitted for the class are at most 200
\* rejection transitions plus one Any transition.
C26_RejectionSetBounded ==
    (pc = "lowered" /\ NegatedClass(hir)) =>
        /\ Cardinality(RejectedChars(hir.ranges)) <= RejectedLimit
        /\ Cardinality(LoweredRejections) <= RejectedLimit
        /\ TotalOccurrences(lowered[1]) <= RejectedLimit + 1

\* h with every Capture{sub} node replaced by its sub.
RECURSIVE StripCaptures(_)
StripCaptures(h) ==
    CASE h.kind = "Capture" -> StripCaptures(h.sub)
      [] h.kind = "Repetition" -> [h EXCEPT !.sub = StripCaptures(h.sub)]
      [] h.kind \in {"Concat", "Alternation"} ->
            [h EXCEPT !.subs = [i \in 1..Len(h.subs) |-> StripCaptures(h.subs[i])]]
      [] OTHER -> h

\* The compile of the state has the outcome r: the same error kind, or
\* success with a structurally equal NFA.
SameOutcome(r) == r.err = err /\ (r.err = "Ok" => r.nfa = nfa)

\* C27: capture groups are semantic no-ops: replacing the Capture nodes of
\* an HIR by their subs does not change the outcome of compile (both succeed
\* with structurally equal NFAs or both fail with the same error kind).
C27_CapturesAreNoOps ==
    (pc # "init" /\ StripCaptures(hir) # hir) =>
        \E order \in HashOrders : SameOutcome(compile(StripCaptures(hir), order))

\* A step of one of the operations that create a state.
Creates ==
    \/ \E next \in BuilderNexts : BuildEpsilon(next)
    \/ \E targets \in BuilderSplits : BuildSplit(targets)
    \/ \E transition \in BuilderTransitions : BuildTransition(transition)
    \/ \E transitions \in BuilderTransitionLists : BuildTransitions(transitions)
    \/ BuildMatch
    \/ BuildRejected

\* C28: state ids are dense and assigned in creation order with no deletion
\* or reuse: next_id equals len(states), the id a creating operation returns
\* is the length of states before the call and the state is stored at that
\* index, and no operation (connect included) removes a state or changes the
\* kind of an existing state.
C28_IdsAreDense ==
    [][/\ nfa.next_id = Len(nfa.states)
       /\ nfa'.next_id = Len(nfa'.states)
       /\ Len(nfa'.states) >= Len(nfa.states)
       /\ \A id \in 0..(Len(nfa.states) - 1) :
             StateAt(nfa', id).kind = StateAt(nfa, id).kind
       /\ Creates =>
             /\ AddedId(nfa) = Len(nfa.states)
             /\ Len(nfa'.states) = Len(nfa.states) + 1
             /\ \A id \in 0..(Len(nfa.states) - 1) :
                   StateAt(nfa', id) = StateAt(nfa, id)
       /\ (\E from \in 0..MaxStates, to \in BuilderIds : BuildConnect(from, to))
             => Len(nfa'.states) = Len(nfa.states)]_vars

\* MaxStates states were created, one of them a Rejected state, and connect
\* patched the transitions of another.
C28_Witness ==
    /\ pc = "build"
    /\ Len(nfa.states) = MaxStates
    /\ nfa.next_id = MaxStates
    /\ \E id \in BuilderIds : StateAt(nfa, id).kind = "Rejected"
    /\ \E id \in BuilderIds :
          /\ StateAt(nfa, id).kind = "Transitions"
          /\ Len(StateAt(nfa, id).transitions) = 3
          /\ StateAt(nfa, id).transitions[1].target = MaxStates - 1

\* The Epsilon.next and Split.targets edges of state id.
EpsilonEdges(n, id) ==
    IF id >= Len(n.states) THEN {}
    ELSE CASE StateAt(n, id).kind = "Epsilon" -> { StateAt(n, id).next }
           [] StateAt(n, id).kind = "Split" ->
                { StateAt(n, id).targets[i] :
                    i \in 1..Len(StateAt(n, id).targets) }
           [] OTHER -> {}

\* The least set that contains S and is closed under these edges.
RECURSIVE LeastClosed(_, _)
LeastClosed(n, S) ==
    IF UNION { EpsilonEdges(n, id) : id \in S } \subseteq S THEN S
    ELSE LeastClosed(n, S \cup UNION { EpsilonEdges(n, id) : id \in S })

\* The sets the closure is taken of: the sets of at most two ids, one id past
\* the end of states included.
ClosureSeeds == { S \in SUBSET (0..MaxStates) : Cardinality(S) <= 2 }

\* C29: epsilon_closure(S) is exactly the least set that contains S and is
\* closed under Epsilon.next and Split.targets edges: it never follows a
\* consuming transition of a Transitions state, and Match and Rejected states
\* add nothing beyond their own membership.
C29_ClosureIsLeastClosedSet ==
    \A S \in ClosureSeeds :
        /\ epsilon_closure(nfa, S) = LeastClosed(nfa, S)
        /\ \A id \in S :
              (id < Len(nfa.states)
               /\ StateAt(nfa, id).kind \in {"Transitions", "Match", "Rejected"})
              => epsilon_closure(nfa, {id}) = {id}

\* A hand-built NFA in which the closure of one state follows two edges in a
\* row, and the closure of another holds a Transitions state without the
\* target of its transitions.
C29_Witness ==
    /\ pc = "build"
    /\ \E id \in BuilderIds :
          /\ id < Len(nfa.states)
          /\ \E mid \in EpsilonEdges(nfa, id) \ {id} :
                EpsilonEdges(nfa, mid) \ {id, mid} # {}
    /\ \E from \in BuilderIds, id \in BuilderIds :
          /\ id < Len(nfa.states)
          /\ id \in epsilon_closure(nfa, {from})
          /\ StateAt(nfa, id).kind = "Transitions"
          /\ \E t \in TransitionsOf(nfa, id) :
                t.target \notin epsilon_closure(nfa, {from})

\* The number of ids the loop of epsilon_closure pops from its stack.
RECURSIVE ClosurePops(_, _, _)
ClosurePops(n, closure, stack) ==
    IF stack = <<>> THEN 0
    ELSE IF stack[Len(stack)] >= Len(n.states)
            \/ StateAt(n, stack[Len(stack)]).kind \notin {"Epsilon", "Split"}
    THEN 1 + ClosurePops(n, closure, SubSeq(stack, 1, Len(stack) - 1))
    ELSE 1 + ClosurePops(n,
                 closure \cup EpsilonEdges(n, stack[Len(stack)]),
                 SubSeq(stack, 1, Len(stack) - 1)
                   \o SetToSeq(EpsilonEdges(n, stack[Len(stack)]) \ closure))

\* A match result within an input of len symbols.
WellFormedMatch(m, len) ==
    /\ m.matched = TRUE
    /\ 0 <= m.start /\ m.start <= m.end /\ m.end <= len

\* C30: matching cannot fail and always terminates, for every NFA (with
\* Epsilon/Split cycles and edges pointing outside states) and every input:
\* is_match gives a boolean, find None or a match within the input, find_all
\* at most len(input) such matches; epsilon_closure pops each id of its
\* result once; the loop of match_at runs at most len(input) - start times,
\* each time with a non-empty current set and a position before len(input).
C30_MatchingTerminates ==
    (pc = "built" /\ input # None) =>
        /\ matched # None => matched[1] \in BOOLEAN
        /\ found # None =>
              \/ found[1] = None
              \/ WellFormedMatch(found[1][1], Len(input[1]))
        /\ all # None =>
              /\ Len(all[1]) <= Len(input[1])
              /\ \A i \in 1..Len(all[1]) :
                    WellFormedMatch(all[1][i], Len(input[1]))
        /\ ClosurePops(nfa, {nfa.start}, <<nfa.start>>)
              = Cardinality(epsilon_closure(nfa, {nfa.start}))
        /\ \A start \in 0..Len(input[1]) :
              /\ Cardinality(MatchAtSteps(nfa, input[1], start))
                    <= Len(input[1]) - start
              /\ \A step \in MatchAtSteps(nfa, input[1], start) :
                    step[1] < Len(input[1]) /\ step[2] # {}
              /\ \/ match_at(nfa, input[1], start) = None
                 \/ match_at(nfa, input[1], start)[1] \in start..Len(input[1])

\* find_all ran on a two-symbol input and an NFA whose start lies on a cycle
\* of Epsilon and Split edges and reaches an id outside states.
C30_Witness ==
    /\ pc = "built"
    /\ all # None
    /\ Len(input[1]) = 2
    /\ nfa.start \in LeastClosed(nfa, EpsilonEdges(nfa, nfa.start))
    /\ \E id \in epsilon_closure(nfa, {nfa.start}) : id >= Len(nfa.states)

\* The state in which compile has returned an NFA and no matcher has run on
\* it yet. No later action changes hir or nfa, so a property of the returned
\* NFA alone is stated for this state.
JustCompiled == pc = "compiled" /\ input = None

\* A repetition by one of the non-possessive quantifiers ?, * and +.
NonPossessiveQuantifier(h) ==
    /\ h.kind = "Repetition"
    /\ h.rkind # "Possessive"
    /\ <<h.min, h.max>> \in {<<0, Some(1)>>, <<0, None>>, <<1, None>>}

\* The node a compile lowers first: the first element of a concat of two or
\* more, otherwise the node itself.
LoweredFirst(h) ==
    IF h.kind = "Concat" /\ Len(h.subs) >= 2 THEN h.subs[1] ELSE h

\* The Split that the lowering of a quantifier creates after the
\* sub-fragment R and the exit epsilon E: the state after E, with the two
\* ordered targets.
QuantifierSplit(n, R, reluctant) ==
    /\ StateAt(n, AddedId(R.c.nfa)).kind = "Epsilon"
    /\ StateAt(n, AddedId(R.c.nfa) + 1) =
          StSplit(IF reluctant THEN <<AddedId(R.c.nfa), R.start>>
                  ELSE <<R.start, AddedId(R.c.nfa)>>)

\* C31: for the non-possessive quantifiers ?, * and + the Split created by
\* the lowering has exactly two ordered targets: [R.start, E] when the
\* repetition is greedy and [E, R.start] when it is reluctant, R being the
\* sub-fragment and E the exit epsilon.
C31_SplitTargetsOrdered ==
    (JustCompiled /\ NonPossessiveQuantifier(LoweredFirst(hir))) =>
        \A order \in HashOrders :
            QuantifierSplit(nfa,
                compile_hir(NewCompiler(order), LoweredFirst(hir).sub),
                LoweredFirst(hir).rkind = "Reluctant")

\* Reluctant `a*?` compiled: R is state 0, E state 1, and the Split, state
\* 2, has the targets [E, R.start].
C31_Witness ==
    /\ JustCompiled
    /\ hir = AStar("Reluctant")
    /\ StateAt(nfa, 2) = StSplit(<<1, 0>>)

\* k copies of the symbol x.
Copies(x, k) == [i \in 1..k |-> x]

\* The counts of copies the model consumes.
Counts == 0..(MaxLen + 1)

\* An accepting state is in the current set after exactly k copies of x
\* have been consumed from the start state.
AcceptsCopies(n, x, k) == AcceptsWhole(n, Copies(x, k))

\* The counts a quantifier over one symbol is to accept.
QuantifierCounts(h) ==
    { k \in Counts : k >= h.min /\ (h.max = None \/ k <= h.max[1]) }

\* A Transitions state with a transition to the state `to`.
TransitionsInto(n, id, to) ==
    /\ StateAt(n, id).kind = "Transitions"
    /\ \E t \in TransitionsOf(n, id) : t.target = to

\* C32: for the single-symbol atom a, the NFAs of `a?`, `a*` and `a+`
\* (greedy or reluctant) have an accepting state in the current set after
\* exactly k copies of a precisely for k in {0,1} (?), every k >= 0 (*) and
\* every k >= 1 (+); ? and * enter through the Split, + enters through
\* R.start with R.end wired back to the Split.
C32_QuantifierCounts ==
    (JustCompiled /\ NonPossessiveQuantifier(hir) /\ hir.sub = LitA) =>
        /\ \A k \in Counts :
              AcceptsCopies(nfa, Sym.a, k) <=> k \in QuantifierCounts(hir)
        /\ hir.min = 0 =>
              /\ nfa.start = 2
              /\ StateAt(nfa, 2).kind = "Split"
        /\ hir.min = 1 =>
              /\ nfa.start = 0
              /\ TransitionsInto(nfa, 0, 2)
              /\ StateAt(nfa, 2).kind = "Split"

\* Reluctant `a+?` compiled: it accepts three copies of a and not the empty
\* input, and its start is R.start.
C32_Witness ==
    /\ JustCompiled
    /\ hir = APlus("Reluctant")
    /\ AcceptsCopies(nfa, Sym.a, 3)
    /\ ~AcceptsCopies(nfa, Sym.a, 0)
    /\ nfa.start = 0

\* A repetition that compile_repetition hands to compile_counted.
Counted(h) ==
    /\ h.kind = "Repetition"
    /\ <<h.min, h.max>> \notin {<<0, Some(1)>>, <<0, None>>, <<1, None>>}

\* C33: for a counted repetition X{n,m} over a single-symbol atom X (m
\* finite or unbounded) the NFA accepts exactly k repetitions of X for
\* n <= k <= m and no other count; with n = 0 and m >= 2 the fragment is
\* entered through a Split offering copy_0.start or the exit E, so the empty
\* input is accepted and more than m repetitions are not.
C33_CountedCounts ==
    (Compiled /\ Counted(hir) /\ hir.sub = LitA) =>
        /\ \A k \in Counts :
              AcceptsCopies(nfa, Sym.a, k) <=> k \in QuantifierCounts(hir)
        /\ (hir.min = 0 /\ hir.max # None /\ hir.max[1] >= 2) =>
              StateAt(nfa, nfa.start).kind = "Split"

\* `[ab]++` and the input `abab`.
ClassABPossessivePlus == HRepetition(1, None, "Possessive", ClassAB)
StrABAB == <<Sym.a, Sym.b, Sym.a, Sym.b>>

\* C34: in the possessive loop node P over a set C of at least two symbols
\* the in-loop transition on the current symbol c fires for every next
\* symbol that belongs to C, not only when the next symbol equals c, so
\* `[ab]++` on `abab` consumes all four symbols.
C34_LoopContinuesOnAnySymbolOfC ==
    Compiled =>
        /\ \A i \in 1..Len(loops) :
              Cardinality(loops[i].C) >= 2 =>
                 \A c \in loops[i].C, d \in loops[i].C :
                    \E t \in TransitionsOf(nfa, loops[i].P) :
                       /\ t.target = loops[i].P
                       /\ transition_matches(t, c, Some(d))
        /\ (hir = ClassABPossessivePlus /\ input = Some(StrABAB) /\ found # None)
              => found = Some(Some(MatchResult(0, 4)))

\* The alternatives of an alternation of n >= 2 branches compiled in order
\* by a new compiler give r (the compiler and the fragments f_1..f_n); the
\* fold then creates, for i = n-1 down to 1, an exit epsilon and a Split.
\* AltStart is the start of the lowering of h_i..h_n: f_n.start for i = n,
\* otherwise the Split created for h_i.
AltStart(r, n, i) ==
    IF i = n THEN r.fragments[n].start
    ELSE AddedId(r.c.nfa) + 2 * (n - i - 1) + 1

\* The exit epsilon created last: the end of the fragment of the alternation.
AltEnd(r, n) == AddedId(r.c.nfa) + 2 * (n - 2)

\* The NFA m holds the right-folded chain of binary Splits over the
\* fragments of r.
RightFolded(m, r, n) ==
    /\ m.start = AltStart(r, n, 1)
    /\ \A i \in 1..(n - 1) :
          StateAt(m, AltStart(r, n, i)) =
             StSplit(<<r.fragments[i].start, AltStart(r, n, i + 1)>>)
    /\ StateAt(m, AltEnd(r, n)).kind = "Epsilon"
    /\ \A i \in 1..n :
          AltEnd(r, n) \in
             epsilon_closure(m, Successors(m, r.fragments[i].end))

\* C35: alternation is lowered as a right-folded chain of binary Splits:
\* for alternatives h1..hn (n >= 2) the fragment start is the Split
\* [h1.start, rest.start], rest being the lowering of h2..hn; every Split
\* created has exactly two targets with the earlier alternative first; the
\* end of every alternative reaches the fragment's end through epsilon edges
\* only.
C35_AlternationRightFolded ==
    (JustCompiled /\ hir.kind = "Alternation" /\ Len(hir.subs) >= 2) =>
        \A order \in HashOrders :
            RightFolded(nfa,
                CompileEach(NewCompiler(order), hir.subs, 1, <<>>),
                Len(hir.subs))

\* `a|b|c` compiled: the start is the Split [a, rest] and rest is the Split
\* [b, c].
C35_Witness ==
    /\ JustCompiled
    /\ hir = HAlternation(<<LitA, LitB, HLiteral(<<Sym.c>>)>>)
    /\ StateAt(nfa, nfa.start) = StSplit(<<0, 4>>)
    /\ StateAt(nfa, 4) = StSplit(<<1, 2>>)

\* A class that is not treated as negated and has a range of more than
\* EnumRangeLimit code points.
LargeRangeClass(h) ==
    /\ h.kind = "Class"
    /\ h.unicode
    /\ TotalChars(h.ranges, 1) <= NegatedThreshold
    /\ \E i \in 1..Len(h.ranges) :
          h.ranges[i][2] - h.ranges[i][1] + 1 > EnumRangeLimit

\* C36: for a class of at most 50,000 symbols that contains a range of more
\* than 1,000 code points, the compiled class node accepts every symbol of
\* that range: a symbol strictly inside the range fires a transition, and
\* find on that one symbol reports [0, 1).
C36_LargeRangeAcceptsItsSymbols ==
    (/\ Compiled
     /\ LargeRangeClass(hir)
     /\ input # None
     /\ Len(input[1]) = 1
     /\ input[1][1] \in SymbolsOf(hir)) =>
        /\ \E t \in TransitionsOf(nfa, nfa.start) :
              transition_matches(t, input[1][1], None)
        /\ found # None => found[1] = Some(MatchResult(0, 1))

\* The transitions of the Transitions states among the ids of S.
TransitionsFrom(n, S) ==
    UNION { TransitionsOf(n, id) :
              id \in { j \in S : j < Len(n.states)
                                 /\ StateAt(n, j).kind = "Transitions" } }

\* The set that follows the current set S when the symbol at position p is
\* consumed: the closure of the targets of the transitions that fire at p.
SetAfter(n, chars, p, S) ==
    LeastClosed(n,
        { t.target : t \in { u \in TransitionsFrom(n, S) : Fires(u, chars, p) } })

\* The smallest position from p on at which the current set holds an
\* accepting state, S being the current set at p; None when no position up
\* to len(chars) has one (an empty set stays empty).
RECURSIVE FirstAccepting(_, _, _, _)
FirstAccepting(n, chars, p, S) ==
    IF S \cap n.accepting # {} THEN Some(p)
    ELSE IF p >= Len(chars) \/ S = {} THEN None
    ELSE FirstAccepting(n, chars, p + 1, SetAfter(n, chars, p, S))

\* The shortest match from start: the smallest accepting position of the
\* simulation that begins at start with the closure of the start state.
ShortestFrom(n, chars, start) ==
    FirstAccepting(n, chars, start, LeastClosed(n, {n.start}))

\* C37: match_at(chars, start) returns the smallest position p >= start at
\* which the current state set contains an accepting state (the shortest
\* match from start), returns None exactly when no position reached by the
\* simulation from start contains one, and never returns a position greater
\* than len(chars). Stated for every start position find may pass, in the
\* state in which find alone has run on the input (the property depends on
\* the NFA and the input only).
C37_MatchAtIsShortest ==
    (found # None /\ matched = None /\ all = None) =>
        \A start \in 0..Len(input[1]) :
            /\ match_at(nfa, input[1], start) = ShortestFrom(nfa, input[1], start)
            /\ match_at(nfa, input[1], start) # None =>
                  match_at(nfa, input[1], start)[1] <= Len(input[1])

\* find ran on an input of three symbols on which match_at returns
\* None from position 0 and, from position 1, the position 3 reached after
\* two steps.
C37_Witness ==
    /\ found # None
    /\ matched = None
    /\ all = None
    /\ Len(input[1]) = 3
    /\ match_at(nfa, input[1], 0) = None
    /\ match_at(nfa, input[1], 1) = Some(3)

EpsilonIds(n) ==
    { id \in 0..(Len(n.states) - 1) : StateAt(n, id).kind = "Epsilon" }

SplitIds(n) ==
    { id \in 0..(Len(n.states) - 1) : StateAt(n, id).kind = "Split" }

\* id is an index into the states of n.
ValidId(n, id) == id >= 0 /\ id < Len(n.states)

\* C38: in every NFA returned by a successful compile every Epsilon.next
\* and every Split target is a valid index into nfa.states, and no
\* placeholder survives: no Epsilon holds usize::MAX, and no Epsilon
\* reachable from start holds the provisional 0 (no connect of the compiler
\* has state 0, the first state created, as its target, so an Epsilon with
\* next 0 was never the `from` of a connect).
C38_NoPlaceholderSurvives ==
    JustCompiled =>
        /\ \A id \in EpsilonIds(nfa) :
              /\ ValidId(nfa, StateAt(nfa, id).next)
              /\ StateAt(nfa, id).next # UNPATCHED
        /\ \A id \in EpsilonIds(nfa) \cap Reach(nfa, {nfa.start}) :
              StateAt(nfa, id).next # 0
        /\ \A id \in SplitIds(nfa) :
              \A i \in 1..Len(StateAt(nfa, id).targets) :
                 ValidId(nfa, StateAt(nfa, id).targets[i])

\* Possessive `a*+` compiled: its two exit epsilons, created with
\* usize::MAX, are reachable from start and lead on to later states.
C38_Witness ==
    /\ JustCompiled
    /\ hir = AStar("Possessive")
    /\ Cardinality(EpsilonIds(nfa) \cap Reach(nfa, {nfa.start})) = 2
    /\ \A id \in EpsilonIds(nfa) :
          StateAt(nfa, id).next > id /\ ValidId(nfa, StateAt(nfa, id).next)

\* The frame of connect(from, to), which turned n into m: only the state
\* `from` may differ; nothing differs when `from` is not a state of n; a
\* patched transition keeps its target, so a further connect on a
\* Transitions state changes nothing.
ConnectFrame(n, from, m) ==
    /\ Len(m.states) = Len(n.states)
    /\ m.next_id = n.next_id
    /\ m.start = n.start
    /\ m.accepting = n.accepting
    /\ \A id \in 0..(Len(n.states) - 1) :
          id # from => StateAt(m, id) = StateAt(n, id)
    /\ from >= Len(n.states) => m = n
    /\ (from < Len(n.states) /\ StateAt(n, from).kind = "Transitions") =>
          /\ \A i \in 1..Len(StateAt(n, from).transitions) :
                StateAt(n, from).transitions[i].target # UNPATCHED =>
                   StateAt(m, from).transitions[i]
                      = StateAt(n, from).transitions[i]
          /\ \A to2 \in BuilderIds : connect(m, from, to2) = m

\* C39: connect(from, to) changes at most the single state `from`: every
\* other state, the number of states, start and accepting are unchanged;
\* when `from` is not a valid state id the whole NFA is unchanged; and for a
\* Transitions state any transition whose target is already different from
\* UNPATCHED keeps its target, so a second connect on the same Transitions
\* state is a no-op.
C39_ConnectFrame ==
    \A from \in 0..MaxStates, to \in BuilderIds :
        ConnectFrame(nfa, from, connect(nfa, from, to))

\* A hand-built NFA of MaxStates states after connect has patched a
\* Transitions state that held one patched and two unpatched transitions:
\* a connect to another state, and a connect from an id past the end, leave
\* it as it is.
C39_Witness ==
    /\ pc = "build"
    /\ Len(nfa.states) = MaxStates
    /\ \E id \in BuilderIds :
          /\ StateAt(nfa, id).kind = "Transitions"
          /\ Len(StateAt(nfa, id).transitions) = 3
          /\ StateAt(nfa, id).transitions[1].target = 1
          /\ StateAt(nfa, id).transitions[2].target = 0
          /\ connect(nfa, id, 2) = nfa
    /\ connect(nfa, MaxStates, 0) = nfa

\* C40: find and find_all agree: for every NFA and input, find(input) is
\* Some if and only if find_all(input) is non-empty, and then the first
\* element of find_all(input) has the start and the end of find(input)
\* (the empty input and matches that start at len(input) included).
C40_FindAgreesWithFindAll ==
    (Compiled /\ found # None /\ all # None) =>
        /\ found[1] # None <=> all[1] # <<>>
        /\ (found[1] # None /\ all[1] # <<>>) =>
              /\ all[1][1].start = found[1][1].start
              /\ all[1][1].end = found[1][1].end

====
